---- MODULE Spec2Model ----
(***************************************************************************)
(* A model of the ltools LDIF toolkit: the location-tracking byte stages   *)
(* (Skipper, CrStripper, Unfolder), the LDIF lexer, the entry assembler,   *)
(* the streaming base64 codec and the lcompare difference engine.          *)
(* Bytes are their integer codes; a Rust slice buf[a..b] (0-based, end     *)
(* exclusive) is SubSeq(buf, a + 1, b).                                    *)
(***************************************************************************)
EXTENDS Integers, Sequences, FiniteSets, TLC

(***************************************************************************)
(* Bounds of the model                                                     *)
(***************************************************************************)
\* longest byte string delivered to a byte stage
MaxLen == 4
\* largest number of empty pieces delivered to a byte stage in one run
MaxEmpty == 1
\* longest byte string encoded, over CodecBytes
MaxPlain == 3
\* longest text decoded, over TextBytes
MaxText == 4
\* largest number of pieces a plain, a text or a Lexer input is written in
MaxPieces == 3
\* longest byte string over LexBytes delivered to the Lexer
MaxLexLen == 4
\* largest number of lines of a document delivered to the Lexer
MaxLines == 3
\* longest attribute name over NameBytes delivered to the Lexer
MaxNameLen == 3
\* largest number of entries of an LDIF input of lcompare
MaxEntries == 2
\* largest number of values of an attribute of such an entry
MaxValues == 2
\* longest glob over GlobBytes and the wildcard that a value is matched against
MaxGlobLen == 3
\* longest value over GlobBytes that a glob is matched against
MaxValueLen == 3
\* largest number of value lists handed to cartesian_product
MaxLists == 3
\* largest number of values of such a list
MaxItems == 2
\* largest number of calls of next after the one that returned None first
MaxCallsAfter == 2
\* longest string over JsonChars handed to write_json_string
MaxChars == 2
\* longest input handed to a Skipper that is driven call by call
MaxSkipLen == 5
\* largest number of begin_skip, end_skip and cancel_skip calls of such a run
MaxOps == 3
\* longest byte string handed to the LEscaper
MaxEscLen == 3

(***************************************************************************)
(* State                                                                   *)
(***************************************************************************)
VARIABLES
    \* a byte stage under test and the producer that drives it
    stage,          \* "CrStripper" or "Unfolder"
    input,          \* the byte string the producer delivers
    fed,            \* number of bytes of input already written
    empties,        \* number of empty pieces written so far
    wloc,           \* WriteLocWrapper.loc, the running successor Loc
    sstate,         \* the stage's State
    skipstate,      \* the stage's SkipState, carried between loc_write calls
    sink,           \* the stage's inner: the sequence of (loc, buf) writes it received
    unfolder,       \* in a chain, the Unfolder that is the CrStripper's inner
    pc,             \* "writing", "flushed" or "failed"
    err             \* the message of the error that stopped the run

stageVars ==
    <<stage, input, fed, empties, wloc, sstate, skipstate, sink, unfolder, pc, err>>

VARIABLES
    \* the base64 codec and the code that drives it
    mode,           \* "roundtrip" (encode, then decode the result) or "decode"
    plain,          \* the byte string written to the EncodeWriter
    encoder,        \* the EncodeWriter: state, u6 and the text written to inner
    text,           \* the text written to the DecodeWriters
    b64state,       \* the DecodeState carried from one DecodeWriter to the next
    decoder,        \* the latest DecodeWriter, with the bytes written to inner
    taken,          \* number of bytes of plain or of text already written
    pieces,         \* the lengths of the pieces written in the current phase
    phase,          \* "encode", "decode", "done" or "failed"
    flushed         \* the result of DecodeWriter::flush: "", "Ok" or "Err"

codecVars ==
    <<mode, plain, encoder, text, b64state, decoder, taken, pieces, phase, flushed>>

VARIABLES
    \* the Lexer, its token receiver and the producer that drives it
    source,         \* the byte string the producer delivers to the Lexer
    cuts,           \* the lengths of the pieces written so far
    lloc,           \* WriteLocWrapper.loc, the running successor Loc
    lexer,          \* the Lexer: state, buf, token_start, token_receiver
    written,        \* the (attr, value) pairs that write_attrval makes the source of
    lpc             \* "composing", "writing", "flushed" or "failed"

lexerVars == <<source, cuts, lloc, lexer, written, lpc>>

VARIABLES
    \* lcompare
    args,               \* the command line: force, invert, attributes, defer
    params,             \* the Parameters that parse_arguments makes of it
    old_file,           \* the entries that reading OLD hands to write_entry
    new_file,           \* the entries that reading NEW hands to write_entry
    old_entries,        \* the EntryBTreeMap of OLD, ascending by DnKey
    new_entries,        \* the EntryBTreeMap of NEW
    comparison,         \* the SortedComparison of compare_entries: what is left
    deferred_deletes,   \* the dns of the delete records to write at the end
    deferred_modifies,  \* the modify records of the deferred attributes
    stdout,             \* the changerecords written so far
    stderr,             \* the dns of the deletes refused for want of --force
    cpc                 \* "start", "comparing" or "done"

compareVars ==
    <<args, params, old_file, new_file, old_entries, new_entries, comparison,
      deferred_deletes, deferred_modifies, stdout, stderr, cpc>>

VARIABLES
    \* the search-filter evaluator
    pattern,        \* the glob of a substring match
    subject,        \* the value the glob is matched against
    ftext,          \* the text handed to Filter::parse
    fentry,         \* the entry the parsed filter is evaluated on
    parsed,         \* the result of Filter::parse: ok and the Filter
    matched,        \* the result, once there is one: of is_match or Filter::is_match
    lfilter,        \* a run of lfilter: its arguments, stdin, outputs and exit status
    fpc             \* "glob", "globbed", "parse", "match", "done", "panicked", "failed",
                    \* "lfilter", "exited"

filterVars ==
    <<pattern, subject, ftext, fentry, parsed, matched, lfilter, fpc>>

VARIABLES
    \* the Cartesian product and the writer of TSV or CSV records that uses it
    record_writer,  \* "tsv" (TsvHashMapWriter) or "csv" (CsvEntryWriter)
    attrvalues,     \* the value lists of an entry, one list per selected attribute
    product,        \* the CartesianProduct: emptied and counters
    results,        \* what the calls of next returned: <<>> for None, <<v>> for Some(v)
    rows,           \* the bytes the writer has written to dest
    ppc             \* "entry", "records", "written" or "panicked"

productVars == <<record_writer, attrvalues, product, results, rows, ppc>>

VARIABLES
    \* write_json_string and its caller
    jstr,           \* the &str s, as the sequence of its chars (code points)
    jout,           \* the bytes written to w
    jpc             \* "call" or "returned"

jsonVars == <<jstr, jout, jpc>>

VARIABLES
    \* a Skipper and the code that drives it
    driver,         \* "Free" (any call), "CrStripper" or "Unfolder" (their loops)
    kinput,         \* all the bytes the driver will hand to Skippers
    kfed,           \* how many of them the buffers so far have held
    kempties,       \* how many empty buffers there have been
    skipper,        \* the Skipper over the current buffer, with its sink
    kstate,         \* the state of the stage that drives the Skipper
    calls,          \* the calls made so far that returned Ok, in order
    kpc             \* "running", "failed" or "done"

skipperVars == <<driver, kinput, kfed, kempties, skipper, kstate, calls, kpc>>

VARIABLES
    \* ldif2tsv and lget
    tool,           \* the command line: the binary, its attributes, the delimiter
    fstdin,         \* the bytes of standard input
    fstdout,        \* the bytes written to standard output
    fstatus         \* "start", or how the process has ended: "0", "1", "panic"

frontVars == <<tool, fstdin, fstdout, fstatus>>

VARIABLES
    \* lescape and lescape -r
    plaintext,      \* the bytes to escape
    escfed,         \* how many of them have been written to the LEscaper
    escaped,        \* what the LEscaper has written
    unfed,          \* how many bytes of escaped have been written to the LUnescaper
    unempties,      \* how many empty writes the LUnescaper has had
    lunescaper,     \* the LUnescaper, with what it has written
    epc             \* "escaping", "unescaping" or "failed"

escapeVars == <<plaintext, escfed, escaped, unfed, unempties, lunescaper, epc>>

vars == <<stageVars, codecVars, lexerVars, compareVars, filterVars, productVars, jsonVars, skipperVars, frontVars, escapeVars>>

\* the components a specification does not exercise stay as they are here
StageIdle ==
    /\ stage = "" /\ input = <<>> /\ fed = 0 /\ empties = 0 /\ wloc = <<>>
    /\ sstate = "" /\ skipstate = <<>> /\ sink = <<>> /\ unfolder = <<>>
    /\ pc = "" /\ err = ""

LexerIdle ==
    /\ source = <<>> /\ cuts = <<>> /\ lloc = <<>> /\ lexer = <<>>
    /\ written = <<>> /\ lpc = ""

CompareIdle ==
    /\ args = <<>> /\ params = <<>> /\ old_file = <<>> /\ new_file = <<>>
    /\ old_entries = <<>> /\ new_entries = <<>> /\ comparison = <<>>
    /\ deferred_deletes = <<>> /\ deferred_modifies = <<>>
    /\ stdout = <<>> /\ stderr = <<>> /\ cpc = ""

FilterIdle ==
    /\ pattern = <<>> /\ subject = <<>>
    /\ ftext = <<>> /\ fentry = <<>> /\ parsed = <<>> /\ matched = <<>>
    /\ lfilter = <<>> /\ fpc = ""

ProductIdle ==
    /\ record_writer = "" /\ attrvalues = <<>> /\ product = <<>> /\ results = <<>>
    /\ rows = <<>> /\ ppc = ""

JsonIdle == jstr = <<>> /\ jout = <<>> /\ jpc = ""

EscapeIdle ==
    /\ plaintext = <<>> /\ escfed = 0 /\ escaped = <<>> /\ unfed = 0 /\ unempties = 0
    /\ lunescaper = <<>> /\ epc = ""

FrontIdle == tool = <<>> /\ fstdin = <<>> /\ fstdout = <<>> /\ fstatus = ""

SkipperIdle ==
    /\ driver = "" /\ kinput = <<>> /\ kfed = 0 /\ kempties = 0 /\ skipper = <<>>
    /\ kstate = "" /\ calls = <<>> /\ kpc = ""

CodecIdle ==
    /\ mode = "" /\ plain = <<>> /\ encoder = <<>> /\ text = <<>> /\ b64state = <<>>
    /\ decoder = <<>> /\ taken = 0 /\ pieces = <<>> /\ phase = "" /\ flushed = ""

(***************************************************************************)
(* Bytes                                                                   *)
(***************************************************************************)
CR == 13
LF == 10
SPACE == 32
LetterA == 97
LetterB == 98
LetterC == 99

\* the bytes the byte stages are exercised with
StageBytes == {CR, LF, SPACE, LetterA}

RECURSIVE SeqsUpTo(_, _)
SeqsUpTo(S, n) ==
    IF n = 0 THEN {<<>>}
    ELSE LET shorter == SeqsUpTo(S, n - 1)
         IN  shorter \cup {Append(s, b) : s \in {t \in shorter : Len(t) = n - 1}, b \in S}

(***************************************************************************)
(* loc.rs                                                                  *)
(***************************************************************************)
LocNew == [line |-> 1, column |-> 1, offset |-> 0]

after(loc, c) ==
    IF c = LF
    THEN [line |-> loc.line + 1, column |-> 1, offset |-> loc.offset + 1]
    ELSE [line |-> loc.line, column |-> loc.column + 1, offset |-> loc.offset + 1]

\* buf.iter().copied().fold(loc, |loc, c| loc.after(c))
RECURSIVE FoldAfter(_, _)
FoldAfter(loc, buf) ==
    IF buf = <<>> THEN loc
    ELSE IF Len(buf) = 1 THEN after(loc, buf[1])
    ELSE LET half == Len(buf) \div 2
             mid == FoldAfter(loc, SubSeq(buf, 1, half))
         IN  \* the fold taken half by half; mid is behind loc by half bytes
             IF mid.offset = loc.offset + half
             THEN FoldAfter(mid, SubSeq(buf, half + 1, Len(buf)))
             ELSE mid

\* test::LocWrites::loc_write: the sink records every write and never fails
SinkWrite(dest, loc, buf) == Append(dest, [loc |-> loc, buf |-> buf])

(***************************************************************************)
(* skip.rs                                                                 *)
(***************************************************************************)
MAX_PREFIX == 4

Writing == [kind |-> "Writing", loc |-> LocNew, offset |-> 0, prefix |-> <<>>]
SkippingFrom(loc, offset) ==
    [kind |-> "SkippingFrom", loc |-> loc, offset |-> offset, prefix |-> <<>>]
SkippingWithPrefix(loc, prefix) ==
    [kind |-> "SkippingWithPrefix", loc |-> loc, offset |-> 0, prefix |-> prefix]

None == -1

Fail(sk, msg) == IF sk.err = "" THEN [sk EXCEPT !.err = msg] ELSE sk

new_with_state(inner, loc, buf, state) ==
    [inner |-> inner, loc |-> loc, buf |-> buf, pos |-> 0, write_from |-> 0,
     write_from_loc |-> loc, state |-> state, err |-> ""]

lookahead(sk) == IF sk.pos < Len(sk.buf) THEN sk.buf[sk.pos + 1] ELSE None

SkWrite(sk, loc, buf) == [sk EXCEPT !.inner = SinkWrite(sk.inner, loc, buf)]

\* a shift that does not bound the skipped data
shift_unbounded(sk) ==
    IF sk.err # "" THEN sk
    ELSE IF lookahead(sk) = None
    THEN Fail(sk, "call to .shift() after reaching end of buffer")
    ELSE LET sk1 == [sk EXCEPT !.loc = after(sk.loc, lookahead(sk)),
                               !.pos = sk.pos + 1]
         IN  IF lookahead(sk1) # None THEN sk1
             ELSE IF sk1.state.kind = "Writing"
             THEN SkWrite(sk1, sk1.write_from_loc,
                          SubSeq(sk1.buf, sk1.write_from + 1, Len(sk1.buf)))
             ELSE IF sk1.state.kind = "SkippingFrom"
             THEN SkWrite(sk1, sk1.write_from_loc,
                          SubSeq(sk1.buf, sk1.write_from + 1, sk1.state.offset))
             ELSE sk1

shift(sk) ==
    IF sk.err # "" THEN sk
    ELSE IF lookahead(sk) = None
    THEN Fail(sk, "call to .shift() after reaching end of buffer")
    ELSE IF /\ sk.state.kind = "SkippingFrom"
            /\ sk.pos + 1 - sk.state.offset > MAX_PREFIX
    THEN Fail(sk, "skipped data exceeds maximum")
    ELSE IF /\ sk.state.kind = "SkippingWithPrefix"
            /\ Len(sk.state.prefix) + sk.pos + 1 > MAX_PREFIX
    THEN Fail(sk, "skipped data exceeds maximum")
    ELSE LET sk1 == [sk EXCEPT !.loc = after(sk.loc, lookahead(sk)),
                               !.pos = sk.pos + 1]
         IN  IF lookahead(sk1) # None THEN sk1
             ELSE IF sk1.state.kind = "Writing"
             THEN SkWrite(sk1, sk1.write_from_loc,
                          SubSeq(sk1.buf, sk1.write_from + 1, Len(sk1.buf)))
             ELSE IF sk1.state.kind = "SkippingFrom"
             THEN SkWrite(sk1, sk1.write_from_loc,
                          SubSeq(sk1.buf, sk1.write_from + 1, sk1.state.offset))
             ELSE sk1

\* a begin_skip that records the location after the byte it starts at
begin_skip_late(sk) ==
    IF sk.err # "" THEN sk
    ELSE IF sk.state.kind # "Writing"
    THEN Fail(sk, "call to .begin_skip() in state {:?}")
    ELSE [sk EXCEPT !.state = SkippingFrom(after(sk.loc, lookahead(sk)), sk.pos)]

begin_skip(sk) ==
    IF sk.err # "" THEN sk
    ELSE IF sk.state.kind # "Writing"
    THEN Fail(sk, "call to .begin_skip() in state {:?}")
    ELSE [sk EXCEPT !.state = SkippingFrom(sk.loc, sk.pos)]

\* an end_skip that leaves the write cursor before the skipped bytes
end_skip_keep(sk) ==
    IF sk.err # "" THEN sk
    ELSE IF sk.state.kind = "Writing"
    THEN Fail(sk, "call to .end_skip() while not skipping")
    ELSE [sk EXCEPT !.state = Writing]

end_skip(sk) ==
    IF sk.err # "" THEN sk
    ELSE IF sk.state.kind = "Writing"
    THEN Fail(sk, "call to .end_skip() while not skipping")
    ELSE LET sk1 == IF sk.state.kind = "SkippingFrom" /\ lookahead(sk) # None
                    THEN SkWrite(sk, sk.write_from_loc,
                                 SubSeq(sk.buf, sk.write_from + 1, sk.state.offset))
                    ELSE sk
         IN  [sk1 EXCEPT !.write_from_loc = sk.loc,
                         !.write_from = sk.pos,
                         !.state = Writing]

\* a cancel_skip that forgets the carried prefix
cancel_skip_drop(sk) ==
    IF sk.err # "" THEN sk ELSE [sk EXCEPT !.state = Writing]

cancel_skip(sk) ==
    IF sk.err # "" THEN sk
    ELSE LET sk1 == IF sk.state.kind = "SkippingWithPrefix"
                    THEN SkWrite(sk, sk.state.loc, sk.state.prefix)
                    ELSE sk
         IN  [sk1 EXCEPT !.state = Writing]

\* the carried prefix lives in a [u8; 4]: storing a fifth byte is an
\* out-of-bounds index, reported here as the kind "Panic"
save_state(sk) ==
    LET carried ==
            IF sk.state.kind = "SkippingFrom"
            THEN SubSeq(sk.buf, sk.state.offset + 1, Len(sk.buf))
            ELSE sk.state.prefix \o sk.buf
    IN  IF sk.state.kind = "Writing" THEN sk.state
        ELSE IF Len(carried) > MAX_PREFIX
        THEN [kind |-> "Panic", loc |-> sk.state.loc, offset |-> 0, prefix |-> <<>>]
        ELSE SkippingWithPrefix(sk.state.loc, carried)

write_remainder(self, dest) ==
    IF self.kind = "SkippingWithPrefix"
    THEN SinkWrite(dest, self.loc, self.prefix)
    ELSE dest

(***************************************************************************)
(* crstrip.rs                                                              *)
(***************************************************************************)
CrStep(st, c, sk) ==
    IF st = "Normal" /\ c = CR THEN [state |-> "Cr", sk |-> shift(begin_skip(sk))]
    ELSE IF st = "Normal" THEN [state |-> "Normal", sk |-> shift(sk)]
    ELSE IF c = CR THEN [state |-> "Cr", sk |-> shift(begin_skip(cancel_skip(sk)))]
    ELSE IF c = LF THEN [state |-> "Normal", sk |-> shift(end_skip(sk))]
    ELSE [state |-> "Normal", sk |-> shift(cancel_skip(sk))]

(***************************************************************************)
(* unfold.rs                                                               *)
(***************************************************************************)
UnfoldStep(st, c, sk) ==
    IF st = "Text" /\ c = LF THEN [state |-> "Newline", sk |-> shift(begin_skip(sk))]
    ELSE IF st = "Text" THEN [state |-> "Text", sk |-> shift(sk)]
    ELSE IF c = SPACE THEN [state |-> "Text", sk |-> end_skip(shift(sk))]
    ELSE IF c = LF THEN [state |-> "Newline", sk |-> shift(cancel_skip(sk))]
    ELSE [state |-> "Text", sk |-> shift(cancel_skip(sk))]

StageStep(stg, st, c, sk) ==
    IF stg = "CrStripper" THEN CrStep(st, c, sk) ELSE UnfoldStep(st, c, sk)

\* while let Some(c) = skipper.lookahead() { self.state = match ... }
\* an operation that fails returns from loc_write before self.state is assigned
RECURSIVE StageLoop(_, _, _)
StageLoop(stg, st, sk) ==
    IF lookahead(sk) = None THEN [state |-> st, sk |-> sk]
    ELSE LET r == StageStep(stg, st, lookahead(sk), sk)
         IN  IF r.sk.err # "" THEN [state |-> st, sk |-> r.sk]
             ELSE StageLoop(stg, r.state, r.sk)

InitialState(stg) == IF stg = "CrStripper" THEN "Normal" ELSE "Text"

\* CrStripper::new / Unfolder::new over an empty sink
StageNew(stg) ==
    [state |-> InitialState(stg), skipstate |-> Writing, inner |-> <<>>, err |-> ""]

\* CrStripper::loc_write / Unfolder::loc_write
loc_write(stg, self, l, buf) ==
    LET r == StageLoop(stg, self.state,
                       new_with_state(self.inner, l, buf, self.skipstate))
        saved == save_state(r.sk)
    IN  IF r.sk.err # ""
        THEN [state |-> r.state, skipstate |-> self.skipstate,
              inner |-> r.sk.inner, err |-> r.sk.err]
        ELSE IF saved.kind = "Panic"
        THEN [state |-> r.state, skipstate |-> self.skipstate,
              inner |-> r.sk.inner, err |-> "index out of bounds"]
        ELSE [state |-> r.state, skipstate |-> saved,
              inner |-> r.sk.inner, err |-> ""]

\* CrStripper::loc_flush / Unfolder::loc_flush
loc_flush(self) ==
    [self EXCEPT !.inner = write_remainder(self.skipstate, self.inner)]

(***************************************************************************)
(* The producer: WriteLocWrapper over the stage                            *)
(***************************************************************************)
Self == [state |-> sstate, skipstate |-> skipstate, inner |-> sink, err |-> err]

InitStage ==
    /\ CodecIdle
    /\ LexerIdle
    /\ CompareIdle
    /\ FilterIdle
    /\ ProductIdle
    /\ JsonIdle
    /\ SkipperIdle
    /\ FrontIdle
    /\ EscapeIdle
    /\ stage \in {"CrStripper", "Unfolder"}
    /\ input \in SeqsUpTo(StageBytes, MaxLen)
    /\ fed = 0
    /\ empties = 0
    /\ wloc = LocNew
    /\ sstate = InitialState(stage)
    /\ skipstate = Writing
    /\ sink = <<>>
    /\ unfolder = <<>>
    /\ pc = "writing"
    /\ err = ""

\* WriteLocWrapper::write with the next n bytes of the input
write(n) ==
    /\ pc = "writing"
    /\ n = 0 => empties < MaxEmpty
    /\ LET buf == SubSeq(input, fed + 1, fed + n)
           r == loc_write(stage, Self, wloc, buf)
       IN  /\ sstate' = r.state
           /\ skipstate' = r.skipstate
           /\ sink' = r.inner
           /\ err' = r.err
           /\ IF r.err # ""
              THEN /\ pc' = "failed"
                   /\ UNCHANGED <<wloc, fed, empties>>
              ELSE /\ pc' = "writing"
                   /\ wloc' = FoldAfter(wloc, buf)
                   /\ fed' = fed + n
                   /\ empties' = IF n = 0 THEN empties + 1 ELSE empties
    /\ UNCHANGED <<stage, input, unfolder, codecVars, lexerVars, compareVars, filterVars, productVars, jsonVars, skipperVars, frontVars, escapeVars>>

\* WriteLocWrapper::flush, once, after the last write
flush ==
    /\ pc = "writing"
    /\ fed = Len(input)
    /\ sink' = loc_flush(Self).inner
    /\ pc' = "flushed"
    /\ UNCHANGED <<stage, input, fed, empties, wloc, sstate, skipstate, unfolder, err>>
    /\ UNCHANGED <<codecVars, lexerVars, compareVars, filterVars, productVars, jsonVars, skipperVars, frontVars, escapeVars>>

NextStage ==
    \/ \E n \in 0..(Len(input) - fed) : write(n)
    \/ flush

SpecStage == InitStage /\ [][NextStage]_vars

(***************************************************************************)
(* The Skipper, call by call                                               *)
(***************************************************************************)
LetterD == 100

\* the bytes of a run whose calls are free: all different
SkipInput == <<LetterA, LetterB, LetterC, LetterD, LF, SPACE>>

InitSkipper ==
    /\ StageIdle
    /\ CodecIdle
    /\ LexerIdle
    /\ CompareIdle
    /\ FilterIdle
    /\ ProductIdle
    /\ JsonIdle
    /\ FrontIdle
    /\ EscapeIdle
    /\ driver \in {"Free", "CrStripper", "Unfolder"}
    /\ IF driver = "Free"
       THEN \E n \in 0..MaxSkipLen : kinput = SubSeq(SkipInput, 1, n)
       ELSE kinput \in SeqsUpTo(StageBytes, MaxLen)
    /\ kfed = 0
    /\ kempties = 0
    /\ skipper = new_with_state(<<>>, LocNew, <<>>, Writing)
    /\ kstate = IF driver = "Free" THEN "" ELSE InitialState(driver)
    /\ calls = <<>>
    /\ kpc = "running"

Ops == Cardinality({i \in 1..Len(calls) : calls[i] # "shift"})

\* what one call leaves behind
Called(name, sk) ==
    /\ skipper' = sk
    /\ IF sk.err # ""
       THEN kpc' = "failed" /\ UNCHANGED calls
       ELSE kpc' = "running" /\ calls' = Append(calls, name)
    /\ UNCHANGED <<driver, kinput, kfed, kempties, kstate>>

Skipper_shift ==
    /\ kpc = "running" /\ driver = "Free"
    /\ Called("shift", shift(skipper))
    /\ UNCHANGED <<stageVars, codecVars, lexerVars, compareVars, filterVars, productVars, jsonVars, frontVars, escapeVars>>

Skipper_begin_skip ==
    /\ kpc = "running" /\ driver = "Free" /\ Ops < MaxOps
    /\ Called("begin_skip", begin_skip(skipper))
    /\ UNCHANGED <<stageVars, codecVars, lexerVars, compareVars, filterVars, productVars, jsonVars, frontVars, escapeVars>>

Skipper_end_skip ==
    /\ kpc = "running" /\ driver = "Free" /\ Ops < MaxOps
    /\ Called("end_skip", end_skip(skipper))
    /\ UNCHANGED <<stageVars, codecVars, lexerVars, compareVars, filterVars, productVars, jsonVars, frontVars, escapeVars>>

Skipper_cancel_skip ==
    /\ kpc = "running" /\ driver = "Free" /\ Ops < MaxOps
    /\ Called("cancel_skip", cancel_skip(skipper))
    /\ UNCHANGED <<stageVars, codecVars, lexerVars, compareVars, filterVars, productVars, jsonVars, frontVars, escapeVars>>

\* one turn of the loop of CrStripper::loc_write or Unfolder::loc_write
stage_step ==
    /\ kpc = "running" /\ driver # "Free"
    /\ lookahead(skipper) # None
    /\ LET r == StageStep(driver, kstate, lookahead(skipper), skipper)
       IN  /\ skipper' = r.sk
           /\ IF r.sk.err # ""
              THEN kpc' = "failed" /\ UNCHANGED kstate
              ELSE kpc' = "running" /\ kstate' = r.state
    /\ UNCHANGED <<driver, kinput, kfed, kempties, calls>>
    /\ UNCHANGED <<stageVars, codecVars, lexerVars, compareVars, filterVars, productVars, jsonVars, frontVars, escapeVars>>

\* the end of a buffer: save_state, and new_with_state over the next n bytes
next_buffer(n) ==
    /\ kpc = "running"
    /\ lookahead(skipper) = None
    /\ n = 0 => kempties < MaxEmpty
    /\ LET saved == save_state(skipper)
       IN  IF saved.kind = "Panic"
           THEN /\ kpc' = "failed"
                /\ skipper' = Fail(skipper, "index out of bounds")
                /\ UNCHANGED <<kfed, kempties>>
           ELSE /\ kpc' = "running"
                /\ skipper' = new_with_state(skipper.inner, skipper.loc,
                                             SubSeq(kinput, kfed + 1, kfed + n), saved)
                /\ kfed' = kfed + n
                /\ kempties' = IF n = 0 THEN kempties + 1 ELSE kempties
    /\ UNCHANGED <<driver, kinput, kstate, calls>>
    /\ UNCHANGED <<stageVars, codecVars, lexerVars, compareVars, filterVars, productVars, jsonVars, frontVars, escapeVars>>

\* the end of the input: save_state, then write_remainder to the sink
end_of_input ==
    /\ kpc = "running"
    /\ lookahead(skipper) = None
    /\ kfed = Len(kinput)
    /\ LET saved == save_state(skipper)
       IN  IF saved.kind = "Panic"
           THEN /\ kpc' = "failed"
                /\ skipper' = Fail(skipper, "index out of bounds")
           ELSE /\ kpc' = "done"
                /\ skipper' = new_with_state(write_remainder(saved, skipper.inner),
                                             skipper.loc, <<>>, saved)
    /\ UNCHANGED <<driver, kinput, kfed, kempties, kstate, calls>>
    /\ UNCHANGED <<stageVars, codecVars, lexerVars, compareVars, filterVars, productVars, jsonVars, frontVars, escapeVars>>

NextSkipper ==
    \/ Skipper_shift
    \/ Skipper_begin_skip
    \/ Skipper_end_skip
    \/ Skipper_cancel_skip
    \/ stage_step
    \/ \E n \in 0..(Len(kinput) - kfed) : next_buffer(n)
    \/ end_of_input

SpecSkipper == InitSkipper /\ [][NextSkipper]_vars

(***************************************************************************)
(* The chain of the tools: WriteLocWrapper over CrStripper over Unfolder   *)
(***************************************************************************)
\* the input a CR LF SPACE b CR LF CR LF c
S2Input == <<LetterA, CR, LF, SPACE, LetterB, CR, LF, CR, LF, LetterC>>

\* the writes that one call of the CrStripper makes to its inner, the Unfolder
\* self, in order; the first that fails ends the call
RECURSIVE InnerWrites(_, _)
InnerWrites(self, writes) ==
    IF writes = <<>> \/ self.err # "" THEN self
    ELSE InnerWrites(loc_write("Unfolder", self, Head(writes).loc, Head(writes).buf),
                     Tail(writes))

\* CrStripper::loc_flush over the Unfolder self: the carried CR is written to
\* the Unfolder, then the Unfolder is flushed
Chain_loc_flush(state, self) ==
    IF write_remainder(state, <<>>) = <<>> THEN loc_flush(self)
    ELSE IF InnerWrites(self, write_remainder(state, <<>>)).err # ""
    THEN InnerWrites(self, write_remainder(state, <<>>))
    ELSE loc_flush(InnerWrites(self, write_remainder(state, <<>>)))

InitChain ==
    /\ CodecIdle
    /\ LexerIdle
    /\ CompareIdle
    /\ FilterIdle
    /\ ProductIdle
    /\ JsonIdle
    /\ SkipperIdle
    /\ FrontIdle
    /\ EscapeIdle
    /\ stage = "Chain"
    /\ input \in SeqsUpTo(StageBytes, MaxLen) \cup {S2Input}
    /\ fed = 0
    /\ empties = 0
    /\ wloc = LocNew
    /\ sstate = InitialState("CrStripper")
    /\ skipstate = Writing
    /\ sink = <<>>
    /\ unfolder = StageNew("Unfolder")
    /\ pc = "writing"
    /\ err = ""

\* the loop of CrStripper::loc_write of the CrStripper (state, skip): the
\* state and the Skipper after it, the writes to the inner in sk.inner
CrStripper_loop(state, skip, l, buf) ==
    StageLoop("CrStripper", state, new_with_state(<<>>, l, buf, skip))

\* WriteLocWrapper::write with the next n bytes of the input: the CrStripper
\* writes to the Unfolder, the Unfolder to the sink. An error of the Unfolder
\* or of the Skipper, or the panic of save_state, ends the call; nothing is
\* written after it, and the fields of the CrStripper are left as they were
chain_write(n) ==
    /\ pc = "writing"
    /\ n = 0 => empties < MaxEmpty
    /\ unfolder' =
           InnerWrites(unfolder,
                       CrStripper_loop(sstate, skipstate, wloc,
                                       SubSeq(input, fed + 1, fed + n)).sk.inner)
    /\ sink' = unfolder'.inner
    /\ err' = IF unfolder'.err # "" THEN unfolder'.err
              ELSE IF save_state(
                          CrStripper_loop(sstate, skipstate, wloc,
                                          SubSeq(input, fed + 1, fed + n)).sk).kind = "Panic"
              THEN "index out of bounds"
              ELSE CrStripper_loop(sstate, skipstate, wloc,
                                   SubSeq(input, fed + 1, fed + n)).sk.err
    /\ IF err' # ""
       THEN /\ pc' = "failed"
            /\ UNCHANGED <<wloc, fed, empties, sstate, skipstate>>
       ELSE /\ pc' = "writing"
            /\ sstate' = CrStripper_loop(sstate, skipstate, wloc,
                                         SubSeq(input, fed + 1, fed + n)).state
            /\ skipstate' = save_state(
                                CrStripper_loop(sstate, skipstate, wloc,
                                                SubSeq(input, fed + 1, fed + n)).sk)
            /\ wloc' = FoldAfter(wloc, SubSeq(input, fed + 1, fed + n))
            /\ fed' = fed + n
            /\ empties' = IF n = 0 THEN empties + 1 ELSE empties
    /\ UNCHANGED <<stage, input, codecVars, lexerVars, compareVars, filterVars, productVars, jsonVars, skipperVars, frontVars, escapeVars>>

\* WriteLocWrapper::flush, once, after the last write
chain_flush ==
    /\ pc = "writing"
    /\ fed = Len(input)
    /\ unfolder' = Chain_loc_flush(skipstate, unfolder)
    /\ sink' = unfolder'.inner
    /\ err' = unfolder'.err
    /\ pc' = IF err' # "" THEN "failed" ELSE "flushed"
    /\ UNCHANGED <<stage, input, fed, empties, wloc, sstate, skipstate>>
    /\ UNCHANGED <<codecVars, lexerVars, compareVars, filterVars, productVars, jsonVars, skipperVars, frontVars, escapeVars>>

NextChain ==
    \/ \E n \in 0..(Len(input) - fed) : chain_write(n)
    \/ chain_flush

SpecChain == InitChain /\ [][NextChain]_vars

(***************************************************************************)
(* Properties of the byte stages                                           *)
(***************************************************************************)
\* the bytes the sink received, in order
RECURSIVE Bytes(_)
Bytes(writes) ==
    IF writes = <<>> THEN <<>> ELSE Head(writes).buf \o Bytes(Tail(writes))

\* the bytes of one write, each with the Loc the write attributes to it
RECURSIVE Located(_, _)
Located(l, buf) ==
    IF buf = <<>> THEN <<>>
    ELSE <<[byte |-> Head(buf), loc |-> l]>> \o Located(after(l, Head(buf)), Tail(buf))

\* what the sink observes once adjacent writes are merged
RECURSIVE Observed(_)
Observed(writes) ==
    IF writes = <<>> THEN <<>>
    ELSE Located(Head(writes).loc, Head(writes).buf) \o Observed(Tail(writes))

\* s without the CR bytes that are immediately followed by LF
RECURSIVE Stripped(_)
Stripped(s) ==
    IF s = <<>> THEN <<>>
    ELSE IF Head(s) = CR /\ Len(s) >= 2 /\ s[2] = LF THEN Stripped(Tail(s))
    ELSE <<Head(s)>> \o Stripped(Tail(s))

\* s without the LF bytes that are immediately followed by SPACE, and
\* without those SPACE bytes
RECURSIVE Unfolded(_)
Unfolded(s) ==
    IF s = <<>> THEN <<>>
    ELSE IF Head(s) = LF /\ Len(s) >= 2 /\ s[2] = SPACE THEN Unfolded(Tail(Tail(s)))
    ELSE <<Head(s)>> \o Unfolded(Tail(s))

\* RFC 2849, note 2: a line is never folded before its first character, so
\* no line that begins with SPACE follows an empty line
LdifValid(s) ==
    \A i \in 1..(Len(s) - 2) : ~(s[i] = LF /\ s[i + 1] = LF /\ s[i + 2] = SPACE)

\* the Loc of the byte at 0-based offset k of s
LocAt(s, k) == FoldAfter(LocNew, SubSeq(s, 1, k))

\* one loc_write of the whole of s, then loc_flush unless the write failed
WholeRun(stg, s) ==
    LET r == loc_write(stg, StageNew(stg), LocNew, s)
    IN  IF r.err # "" THEN r ELSE loc_flush(r)

\* C1: whatever the chunking, once flushed the CrStripper has written the
\* input without exactly the CR bytes that are immediately followed by LF,
\* and it never fails
CrStripCorrect ==
    stage = "CrStripper" =>
        /\ pc # "failed"
        /\ pc = "flushed" => Bytes(sink) = Stripped(input)

\* a flushed CrStripper run over CR CR LF CR delivered in more than one piece:
\* the first CR and the trailing CR are kept, the second CR is removed
CrStripWitness ==
    /\ stage = "CrStripper"
    /\ pc = "flushed"
    /\ input = <<CR, CR, LF, CR>>
    /\ Len(sink) >= 3
    /\ Bytes(sink) = <<CR, LF, CR>>

\* C2: whatever the chunking, once flushed the Unfolder has written an
\* LDIF-valid input without exactly the LF SPACE pairs, and it never fails
UnfoldCorrect ==
    (stage = "Unfolder" /\ LdifValid(input)) =>
        /\ pc # "failed"
        /\ pc = "flushed" => Bytes(sink) = Unfolded(input)

\* a flushed Unfolder run over a LF SPACE LF: the fold disappears and the
\* LF that ends the input is kept
UnfoldWitness ==
    /\ stage = "Unfolder"
    /\ pc = "flushed"
    /\ input = <<LetterA, LF, SPACE, LF>>
    /\ Bytes(sink) = <<LetterA, LF>>

\* C3: a run that ended (flushed or failed) made the sink observe what one
\* loc_write of the whole input followed by loc_flush makes it observe
ChunkInvariance ==
    pc \in {"flushed", "failed"} =>
        Observed(sink) = Observed(WholeRun(stage, input).inner)

\* C4: every non-empty write the sink received carries the Loc of its first
\* byte in the original input, is a contiguous slice of the input, and
\* starts after the end of every earlier non-empty write
LocAccuracy ==
    \A i \in 1..Len(sink) :
        sink[i].buf # <<>> =>
            /\ sink[i].loc.offset + Len(sink[i].buf) <= Len(input)
            /\ sink[i].loc = LocAt(input, sink[i].loc.offset)
            /\ sink[i].buf = SubSeq(input, sink[i].loc.offset + 1,
                                    sink[i].loc.offset + Len(sink[i].buf))
            /\ \A j \in 1..(i - 1) :
                   sink[j].buf # <<>> =>
                       sink[j].loc.offset + Len(sink[j].buf) <= sink[i].loc.offset

\* a carried LF written at flush on line 2 and a carried CR written after a
\* cancelled skip, each at its original location
LocWitness ==
    /\ pc = "flushed"
    /\ Len(input) = MaxLen
    /\ \E i \in 1..Len(sink) :
           /\ sink[i].loc.line = 2
           /\ sink[i].loc.offset = Len(input) - 1
           /\ sink[i].buf = <<input[Len(input)]>>
           /\ input[Len(input)] \in {CR, LF}

(***************************************************************************)
(* ASCII                                                                   *)
(***************************************************************************)
Upper ==
    << "A", "B", "C", "D", "E", "F", "G", "H", "I", "J", "K", "L", "M",
       "N", "O", "P", "Q", "R", "S", "T", "U", "V", "W", "X", "Y", "Z" >>
Lower ==
    << "a", "b", "c", "d", "e", "f", "g", "h", "i", "j", "k", "l", "m",
       "n", "o", "p", "q", "r", "s", "t", "u", "v", "w", "x", "y", "z" >>
Digits == << "0", "1", "2", "3", "4", "5", "6", "7", "8", "9" >>
Punct ==
    { <<" ", 32>>, <<"#", 35>>, <<"+", 43>>, <<",", 44>>, <<"-", 45>>, <<"/", 47>>,
      <<":", 58>>, <<";", 59>>, <<"<", 60>>, <<"=", 61>>, <<"_", 95>>,
      <<"\n", 10>>, <<"\r", 13>>,
      <<"!", 33>>, <<"&", 38>>, <<"(", 40>>, <<")", 41>>, <<"*", 42>>,
      <<">", 62>>, <<"\\", 92>>, <<"|", 124>>, <<"~", 126>> }

IndexOf(seq, ch) == CHOOSE i \in 1..Len(seq) : seq[i] = ch
In(seq, ch) == \E i \in 1..Len(seq) : seq[i] = ch

\* the byte of a one-character string
Ord(ch) ==
    IF In(Upper, ch) THEN 64 + IndexOf(Upper, ch)
    ELSE IF In(Lower, ch) THEN 96 + IndexOf(Lower, ch)
    ELSE IF In(Digits, ch) THEN 47 + IndexOf(Digits, ch)
    ELSE (CHOOSE p \in Punct : p[1] = ch)[2]

\* the bytes of a string given as a sequence of one-character strings
B(chars) == [i \in 1..Len(chars) |-> Ord(chars[i])]

(***************************************************************************)
(* u8 arithmetic                                                           *)
(***************************************************************************)
RECURSIVE BitOr(_, _)
BitOr(a, b) ==
    IF a = 0 THEN b
    ELSE IF b = 0 THEN a
    ELSE (IF a % 2 = 1 \/ b % 2 = 1 THEN 1 ELSE 0) + 2 * BitOr(a \div 2, b \div 2)

\* c << k and c >> k on a u8
Shl(c, k) == (c * 2 ^ k) % 256
Shr(c, k) == c \div 2 ^ k

(***************************************************************************)
(* base64.rs                                                               *)
(***************************************************************************)
DecodeStateDefault == [state |-> "B0", octet |-> 0]

decode_value_of(digit) ==
    IF digit >= Ord("A") /\ digit <= Ord("Z") THEN digit - Ord("A")
    ELSE IF digit >= Ord("a") /\ digit <= Ord("z") THEN digit - Ord("a") + 26
    ELSE IF digit >= Ord("0") /\ digit <= Ord("9") THEN digit - Ord("0") + 52
    ELSE IF digit = Ord("+") THEN 62
    ELSE IF digit = Ord("/") THEN 63
    ELSE None

\* a new_with_state that restores the phase and not the partial octet
DecodeWriter_new_without_octet(out, ds) ==
    [inner |-> out, state |-> ds.state, octet |-> 0, err |-> None, kind |-> "", msg |-> <<>>]

\* DecodeWriter::new_with_state; err is the byte the write failed on, kind and
\* msg the ErrorKind and the message of the Error it returned
DecodeWriter_new_with_state(out, ds) ==
    [inner |-> out, state |-> ds.state, octet |-> ds.octet, err |-> None,
     kind |-> "", msg |-> <<>>]

get_state(self) == [state |-> self.state, octet |-> self.octet]

\* a variant that writes the hexadecimal digits in lower case
unexpected_character_lower(c) ==
    LET LowerHex(d) == IF d < 10 THEN Ord("0") + d ELSE Ord("a") + d - 10
    IN  B(<<"u", "n", "e", "x", "p", "e", "c", "t", "e", "d", " ",
            "c", "h", "a", "r", "a", "c", "t", "e", "r", " ", "0", "x">>)
            \o <<LowerHex(c \div 16), LowerHex(c % 16)>>

\* format!("unexpected character 0x{:02X}", c): the u8 in upper-case
\* hexadecimal, padded with zeros to two digits
unexpected_character(c) ==
    LET UpperHex(d) == IF d < 10 THEN Ord("0") + d ELSE Ord("A") + d - 10
    IN  B(<<"u", "n", "e", "x", "p", "e", "c", "t", "e", "d", " ",
            "c", "h", "a", "r", "a", "c", "t", "e", "r", " ", "0", "x">>)
            \o <<UpperHex(c \div 16), UpperHex(c % 16)>>

\* one iteration of the loop of DecodeWriter::write
DecodeByte(self, c) ==
    LET value == decode_value_of(c)
    IN  IF self.state = "B0" /\ value # None
        THEN [self EXCEPT !.octet = Shl(value, 2), !.state = "B6"]
        ELSE IF self.state = "B6" /\ value # None
        THEN [self EXCEPT !.inner = Append(self.inner, BitOr(self.octet, Shr(value, 4))),
                          !.octet = Shl(value, 4), !.state = "B4"]
        ELSE IF self.state = "B4" /\ value # None
        THEN [self EXCEPT !.inner = Append(self.inner, BitOr(self.octet, Shr(value, 2))),
                          !.octet = Shl(value, 6), !.state = "B2"]
        ELSE IF self.state = "B4" /\ c = Ord("=")
        THEN [self EXCEPT !.state = "P1"]
        ELSE IF self.state = "B2" /\ value # None
        THEN [self EXCEPT !.inner = Append(self.inner, BitOr(self.octet, value)),
                          !.octet = BitOr(self.octet, value), !.state = "B0"]
        ELSE IF self.state \in {"B2", "P1"} /\ c = Ord("=")
        THEN [self EXCEPT !.state = "P0"]
        ELSE [self EXCEPT !.err = c, !.kind = "InvalidData",
                          !.msg = unexpected_character(c)]

\* DecodeWriter::write: the first illegal byte ends the call
RECURSIVE DecodeWriter_write(_, _)
DecodeWriter_write(self, buf) ==
    IF buf = <<>> \/ self.err # None THEN self
    ELSE DecodeWriter_write(DecodeByte(self, Head(buf)), Tail(buf))

\* a flush that also accepts a single '=' after two digits
DecodeWriter_flush_lenient(self) == IF self.state \in {"P0", "P1", "B0"} THEN "Ok" ELSE "Err"

\* DecodeWriter::flush: a match on self.state, nothing is assigned or written
DecodeWriter_flush(self) == IF self.state \in {"P0", "B0"} THEN "Ok" ELSE "Err"

encode_value_of(u6) ==
    IF u6 <= 25 THEN Ord("A") + u6
    ELSE IF u6 <= 51 THEN u6 - 26 + Ord("a")
    ELSE IF u6 <= 61 THEN u6 - 52 + Ord("0")
    ELSE IF u6 = 62 THEN Ord("+")
    ELSE Ord("/")

EncodeWriter_new == [inner |-> <<>>, state |-> "B0", u6 |-> 0]

EncodeWriter_emit(self) == [self EXCEPT !.inner = Append(self.inner, encode_value_of(self.u6))]

\* one iteration of the loop of EncodeWriter::write
EncodeByte(self, c) ==
    IF self.state = "B0"
    THEN [EncodeWriter_emit([self EXCEPT !.u6 = Shr(c, 2)])
            EXCEPT !.u6 = Shl(c, 4) % 64, !.state = "B2"]
    ELSE IF self.state = "B2"
    THEN [EncodeWriter_emit([self EXCEPT !.u6 = BitOr(self.u6, Shr(c, 4))])
            EXCEPT !.u6 = Shl(c, 2) % 64, !.state = "B4"]
    ELSE [EncodeWriter_emit([EncodeWriter_emit([self EXCEPT !.u6 = BitOr(self.u6, Shr(c, 6))])
                  EXCEPT !.u6 = c % 64])
            EXCEPT !.state = "B0"]

RECURSIVE EncodeWriter_write(_, _)
EncodeWriter_write(self, buf) ==
    IF buf = <<>> THEN self
    ELSE EncodeWriter_write(EncodeByte(self, Head(buf)), Tail(buf))

\* a flush that writes the last sextet and no padding
EncodeWriter_flush_unpadded(self) ==
    IF self.state = "B0" THEN self ELSE EncodeWriter_emit(self)

\* a flush that pads with one '=' in both states
EncodeWriter_flush_single(self) ==
    IF self.state = "B0" THEN self
    ELSE [EncodeWriter_emit(self) EXCEPT !.inner = @ \o B(<<"=">>)]

EncodeWriter_flush(self) ==
    IF self.state = "B0" THEN self
    ELSE IF self.state = "B2"
    THEN [EncodeWriter_emit(self) EXCEPT !.inner = @ \o B(<<"=", "=">>)]
    ELSE [EncodeWriter_emit(self) EXCEPT !.inner = @ \o B(<<"=">>)]

(***************************************************************************)
(* The code that drives the codec: write_attrval drives the EncodeWriter,  *)
(* EntryTokenWriter::write_token one DecodeWriter per ValueBase64 token    *)
(***************************************************************************)
\* bytes that exercise every bit of the three positions of a group
CodecBytes == {0, 1, 77, 128, 255}

\* a digit, the last digit, the padding and a byte that is no digit
TextBytes == {Ord("Q"), Ord("/"), Ord("="), CR}

\* S3 of the specification: SGVs bG8g d29ybGQ=
S3 == B(<<"S", "G", "V", "s", "b", "G", "8", "g", "d", "2", "9", "y", "b", "G", "Q", "=">>)

HelloWorld == B(<<"H", "e", "l", "l", "o", " ", "w", "o", "r", "l", "d">>)

\* every byte value at every position of a group of three
\* and the inputs of test_encode_a and test_encode_b
Plains ==
    SeqsUpTo(CodecBytes, MaxPlain)
        \cup {p \o <<b>> : p \in {<<>>, <<77>>, <<77, 255>>}, b \in 0..255}
        \cup {B(<<"a", "b", "c", "d">>), B(<<"1", "2", "3", "4", "5", "6", "7", "8">>)}

\* every byte value in every phase of the decoder: B0, B6, B4, B2, P1, P0
PhasePrefixes ==
    {<<>>, B(<<"Q">>), B(<<"Q", "Q">>), B(<<"Q", "Q", "Q">>), B(<<"Q", "Q", "=">>),
     B(<<"Q", "Q", "=", "=">>), B(<<"Q", "Q", "Q", "=">>)}

Texts ==
    SeqsUpTo(TextBytes, MaxText) \cup {S3}
        \cup {p \o <<b>> : p \in PhasePrefixes, b \in 0..255}

InitCodec ==
    /\ StageIdle
    /\ LexerIdle
    /\ CompareIdle
    /\ FilterIdle
    /\ ProductIdle
    /\ JsonIdle
    /\ SkipperIdle
    /\ FrontIdle
    /\ EscapeIdle
    /\ mode \in {"roundtrip", "decode"}
    /\ plain \in (IF mode = "roundtrip" THEN Plains ELSE {<<>>})
    /\ text \in (IF mode = "roundtrip" THEN {<<>>} ELSE Texts)
    /\ phase = (IF mode = "roundtrip" THEN "encode" ELSE "decode")
    /\ encoder = EncodeWriter_new
    /\ b64state = DecodeStateDefault
    /\ decoder = DecodeWriter_new_with_state(<<>>, DecodeStateDefault)
    /\ taken = 0
    /\ pieces = <<>>
    /\ flushed = ""

\* the last piece allowed takes all that is left
PieceOk(n, left) ==
    /\ Len(pieces) < MaxPieces
    /\ n \in 1..left
    /\ Len(pieces) = MaxPieces - 1 => n = left

\* EncodeWriter::write with the next n bytes of plain
enc_write(n) ==
    /\ phase = "encode"
    /\ PieceOk(n, Len(plain) - taken)
    /\ encoder' = EncodeWriter_write(encoder, SubSeq(plain, taken + 1, taken + n))
    /\ taken' = taken + n
    /\ pieces' = Append(pieces, n)
    /\ UNCHANGED <<mode, plain, text, b64state, decoder, phase, flushed, stageVars, lexerVars, compareVars, filterVars, productVars, jsonVars, skipperVars, frontVars, escapeVars>>

\* EncodeWriter::flush, once; the text it produced is then decoded
enc_flush ==
    /\ phase = "encode"
    /\ taken = Len(plain)
    /\ encoder' = EncodeWriter_flush(encoder)
    /\ text' = encoder'.inner
    /\ phase' = "decode"
    /\ taken' = 0
    /\ pieces' = <<>>
    /\ UNCHANGED <<mode, plain, b64state, decoder, flushed, stageVars, lexerVars, compareVars, filterVars, productVars, jsonVars, skipperVars, frontVars, escapeVars>>

\* entry.rs 273-276: a DecodeWriter built from the carried state decodes
\* the next n bytes of text; the state is carried on only if the write succeeds
dec_write(n) ==
    /\ phase = "decode"
    /\ PieceOk(n, Len(text) - taken)
    /\ LET w == DecodeWriter_write(
                    DecodeWriter_new_with_state(decoder.inner, b64state),
                    SubSeq(text, taken + 1, taken + n))
       IN  /\ decoder' = w
           /\ IF w.err # None
              THEN /\ phase' = "failed"
                   /\ UNCHANGED <<b64state, taken>>
              ELSE /\ b64state' = get_state(w)
                   /\ taken' = taken + n
                   /\ UNCHANGED phase
    /\ pieces' = Append(pieces, n)
    /\ UNCHANGED <<mode, plain, encoder, text, flushed, stageVars, lexerVars, compareVars, filterVars, productVars, jsonVars, skipperVars, frontVars, escapeVars>>

\* DecodeWriter::flush on a writer built from the carried state
dec_flush ==
    /\ phase = "decode"
    /\ taken = Len(text)
    /\ flushed' = DecodeWriter_flush(DecodeWriter_new_with_state(decoder.inner, b64state))
    /\ phase' = "done"
    /\ UNCHANGED <<mode, plain, encoder, text, b64state, decoder, taken, pieces, stageVars, lexerVars, compareVars, filterVars, productVars, jsonVars, skipperVars, frontVars, escapeVars>>

NextCodec ==
    \/ \E n \in 1..MaxText + MaxPlain + Len(S3) : enc_write(n)
    \/ enc_flush
    \/ \E n \in 1..MaxText + MaxPlain + Len(S3) : dec_write(n)
    \/ dec_flush

SpecCodec == InitCodec /\ [][NextCodec]_vars

(***************************************************************************)
(* Properties of the codec                                                 *)
(***************************************************************************)
\* DecodeWriter::new, one write of the whole text
DecodeWhole(t) ==
    DecodeWriter_write(DecodeWriter_new_with_state(<<>>, DecodeStateDefault), t)

\* C8: encoding a byte string in any pieces, flushing, and decoding the text
\* in any pieces never fails, flushes Ok and gives the byte string back
Base64RoundTrip ==
    mode = "roundtrip" =>
        /\ phase # "failed"
        /\ phase = "done" => (decoder.inner = plain /\ flushed = "Ok")

\* a round trip of three bytes ending in 0xFF, written in two pieces
RoundTripWitness ==
    /\ mode = "roundtrip"
    /\ phase = "done"
    /\ plain = <<77, 255, 255>>
    /\ pieces = <<1, 3>>
    /\ decoder.inner = plain

\* C9: decoding a text piece by piece, each DecodeWriter built from the state
\* of the one before, ends with the output, the DecodeState and the success
\* or failure of one write of the whole text; S3 decodes to Hello world
StreamingDecode ==
    phase \in {"done", "failed"} =>
        /\ decoder.inner = DecodeWhole(text).inner
        /\ get_state(decoder) = get_state(DecodeWhole(text))
        /\ decoder.err = DecodeWhole(text).err
        /\ (phase = "failed") <=> (DecodeWhole(text).err # None)
        /\ phase = "done" => flushed = DecodeWriter_flush(DecodeWhole(text))
        /\ (phase = "done" /\ text = S3) => decoder.inner = HelloWorld

\* S3 decoded in the pieces SGVs, bG8g, d29ybGQ=
StreamingDecodeWitness ==
    /\ mode = "decode"
    /\ phase = "done"
    /\ text = S3
    /\ pieces = <<4, 4, 8>>
    /\ decoder.inner = HelloWorld
    /\ flushed = "Ok"

(***************************************************************************)
(* entry.rs: EntryTokenWriter                                              *)
(***************************************************************************)
NoError == [msg |-> "", line |-> 0, column |-> 0, byte |-> None]

to_ascii_lowercase(s) ==
    [i \in 1..Len(s) |-> IF s[i] >= Ord("A") /\ s[i] <= Ord("Z") THEN s[i] + 32 ELSE s[i]]

\* HashMap::get on attr2index: the 1-based index of the key, None if absent
IndexGet(attr2index, key) ==
    IF \E i \in 1..Len(attr2index) : attr2index[i] = key
    THEN CHOOSE i \in 1..Len(attr2index) : attr2index[i] = key
    ELSE None

\* EntryTokenWriter::new and new_for_attributes, then set_ignore_entries_without_dn
EntryTokenWriter_new(all, attributes, ignore) ==
    [all_attributes |-> all,
     state |-> "Start",
     attr2index |-> [i \in 1..Len(attributes) |-> to_ascii_lowercase(attributes[i])],
     attrnames |-> attributes,
     attrvalues |-> [i \in 1..Len(attributes) |-> <<>>],
     attrmatch |-> None,
     valuebuf |-> <<>>,
     dest |-> <<>>,
     valuetype |-> "Text",
     b64state |-> DecodeStateDefault,
     ignore_entries_without_dn |-> ignore,
     err |-> NoError]

\* entry.rs 228-234: the first attribute type decides whether a version line
\* starts the input
LeaveStart(self, attrlowercase) ==
    IF self.state = "Start"
    THEN [self EXCEPT !.state =
              IF attrlowercase = B(<<"v", "e", "r", "s", "i", "o", "n">>)
              THEN "Version" ELSE "BeforeEntry"]
    ELSE self

\* entry.rs 235-245: the first attribute type of a group decides whether the
\* group is processed
EnterEntry(self, attrlowercase) ==
    IF self.state = "BeforeEntry"
    THEN [self EXCEPT !.state =
              IF ~self.ignore_entries_without_dn \/ attrlowercase = B(<<"d", "n">>)
              THEN "Processing" ELSE "Ignoring"]
    ELSE self

\* entry.rs 246-260: self.attrmatch
MatchAttribute(self, attrname, attrlowercase) ==
    IF self.state # "Processing" THEN [self EXCEPT !.attrmatch = None]
    ELSE IF IndexGet(self.attr2index, attrlowercase) = None /\ self.all_attributes
    THEN [self EXCEPT !.attrvalues = Append(@, <<>>),
                      !.attrnames = Append(@, attrname),
                      !.attr2index = Append(@, attrlowercase),
                      !.attrmatch = Len(self.attrvalues) + 1]
    ELSE [self EXCEPT !.attrmatch = IndexGet(self.attr2index, attrlowercase)]

\* the AttributeType arm of write_token
OnAttributeType(self, segment) ==
    MatchAttribute(
        EnterEntry(LeaveStart(self, to_ascii_lowercase(segment)),
                   to_ascii_lowercase(segment)),
        segment, to_ascii_lowercase(segment))

\* the ValueBase64 arm after decoder.write_all: a failed write leaves what it
\* decoded in valuebuf and does not carry the state on
Decoded(self, dw) ==
    IF dw.err # None
    THEN [self EXCEPT !.valuebuf = dw.inner,
                      !.err = [msg |-> "unexpected character", line |-> 0,
                               column |-> 0, byte |-> dw.err]]
    ELSE [self EXCEPT !.valuebuf = dw.inner,
                      !.b64state = get_state(dw),
                      !.valuetype = "Base64"]

\* the ValueBase64 arm
OnValueBase64(self, segment) ==
    IF self.attrmatch = None THEN self
    ELSE Decoded(self, DecodeWriter_write(
             DecodeWriter_new_with_state(self.valuebuf, self.b64state), segment))

\* the ValueText arm
OnValueText(self, segment) ==
    IF self.attrmatch = None
    THEN [self EXCEPT !.state = IF @ = "Version" THEN "BeforeEntry" ELSE @]
    ELSE [self EXCEPT !.state = IF @ = "Version" THEN "BeforeEntry" ELSE @,
                      !.valuebuf = @ \o segment, !.valuetype = "Text"]

\* the ValueFinish arm
OnValueFinish(self) ==
    IF self.attrmatch = None THEN self
    ELSE [self EXCEPT !.b64state = IF self.valuetype = "Base64"
                                   THEN DecodeStateDefault ELSE @,
                      !.attrvalues[self.attrmatch] = Append(@, self.valuebuf),
                      !.valuebuf = <<>>]

\* the Entry handed to write_entry: names, keys and value lists by index
EntryOf(self) ==
    [attrnames |-> self.attrnames, attr2index |-> self.attr2index,
     attr2values |-> self.attrvalues]

\* a variant that hands an entry to the sink whatever the state is
OnEntryFinish_unguarded(self) ==
    [self EXCEPT !.dest = Append(@, EntryOf(self)),
                 !.attrvalues = [i \in 1..Len(self.attrvalues) |-> <<>>],
                 !.state = "BeforeEntry"]

\* the EntryFinish arm: write_entry and clear the value lists when Processing
OnEntryFinish(self) ==
    IF self.state = "Processing"
    THEN [self EXCEPT !.dest = Append(@, EntryOf(self)),
                      !.attrvalues = [i \in 1..Len(self.attrvalues) |-> <<>>],
                      !.state = "BeforeEntry"]
    ELSE [self EXCEPT !.state = "BeforeEntry"]

\* EntryTokenWriter::write_token
write_token(self, token) ==
    IF token.kind = "AttributeType" THEN OnAttributeType(self, token.segment)
    ELSE IF token.kind = "ValueText" THEN OnValueText(self, token.segment)
    ELSE IF token.kind = "ValueBase64" THEN OnValueBase64(self, token.segment)
    ELSE IF token.kind = "ValueFinish" THEN OnValueFinish(self)
    ELSE OnEntryFinish(self)

(***************************************************************************)
(* lexer.rs.  The token kind that lexer.rs spells EmptyLine is the one     *)
(* entry.rs matches as EntryFinish; the model uses the latter name.        *)
(***************************************************************************)
MAX_TYPE_LENGTH == 1024

\* the token receiver: the tokens as received (tests::TokenCopy), the number
\* of entries the sink was handed while each token was handled, and the
\* EntryTokenWriter that consumes the tokens
Logged(r, token, w) ==
    [tokens |-> Append(r.tokens, token),
     calls |-> Append(r.calls, Len(w.dest) - Len(r.writer.dest)),
     writer |-> w]

Receive(r, token) == Logged(r, token, write_token(r.writer, token))

Lexer_new(writer) ==
    [state |-> "LineStart",
     token_receiver |-> [tokens |-> <<>>, calls |-> <<>>, writer |-> writer],
     buf |-> <<>>,
     token_start |-> LocNew,
     err |-> NoError]

\* Lexer::emit after write_token: buf is cleared only when the receiver
\* accepted the token
AfterToken(self, r) ==
    IF r.writer.err # NoError
    THEN [self EXCEPT !.token_receiver = r, !.err = r.writer.err]
    ELSE [self EXCEPT !.token_receiver = r, !.buf = <<>>]

\* Lexer::emit; after a failure nothing more is emitted
emit(self, token_kind) ==
    IF self.err # NoError THEN self
    ELSE AfterToken(self, Receive(self.token_receiver,
                                  [kind |-> token_kind, loc |-> self.token_start,
                                   segment |-> self.buf]))

InRange(c, lo, hi) == c >= lo /\ c <= hi
ALPHA(c) == InRange(c, Ord("A"), Ord("Z")) \/ InRange(c, Ord("a"), Ord("z"))
DIGIT(c) == InRange(c, Ord("0"), Ord("9"))
BASE64_CHAR(c) == c \in {Ord("+"), Ord("/"), Ord("=")} \/ DIGIT(c) \/ ALPHA(c)
SAFE_INIT_CHAR(c) ==
    \/ InRange(c, 1, 9) \/ InRange(c, 11, 12) \/ InRange(c, 14, 31)
    \/ InRange(c, 33, 57) \/ c = 59 \/ InRange(c, 61, 125)
SAFE_CHAR(c) == InRange(c, 1, 9) \/ InRange(c, 11, 12) \/ InRange(c, 14, 127)

LexError(self, msg, l) ==
    [self EXCEPT !.err = [msg |-> msg, line |-> l.line, column |-> l.column,
                          byte |-> None]]

Push(self, c) == [self EXCEPT !.buf = Append(@, c)]
Goto(self, st) == [self EXCEPT !.state = st]
Start(self, l, c, st) == [Push(self, c) EXCEPT !.token_start = l, !.state = st]

\* the arms of the match on self.state in Lexer::loc_write
InLineStart(self, l, c) ==
    IF c = LF THEN emit(self, "EntryFinish")
    ELSE IF c = Ord("#") THEN Goto(self, "CommentLine")
    ELSE IF ALPHA(c) THEN Start(self, l, c, "AttributeType")
    ELSE IF DIGIT(c) THEN LexError(self, "unexpected digit", l)
    ELSE LexError(self, "unexpected character", l)

InCommentLine(self, l, c) == IF c = LF THEN Goto(self, "LineStart") ELSE self

InAttributeType(self, l, c) ==
    IF c = Ord(";") THEN LexError(self, "unexpected semicolon", l)
    ELSE IF ALPHA(c) \/ DIGIT(c) \/ c = Ord("-")
    THEN IF Len(self.buf) >= MAX_TYPE_LENGTH
         THEN LexError(self, "maximum attribute type name length exceeded", l)
         ELSE Push(self, c)
    ELSE IF c = Ord(":") THEN Goto(emit(self, "AttributeType"), "ValueColon")
    ELSE LexError(self, "unexpected character in attribute type name", l)

InValueColon(self, l, c) ==
    IF SAFE_INIT_CHAR(c) THEN Start(self, l, c, "SafeStringValue")
    ELSE IF c = SPACE THEN Goto(self, "WhitespaceBefore(SafeStringValue)")
    ELSE IF c = Ord(":") THEN Goto(self, "WhitespaceBefore(Base64Value)")
    ELSE IF c = LF
    THEN Goto(emit(emit(self, "ValueText"), "ValueFinish"), "LineStart")
    ELSE IF c = Ord("<") THEN LexError(self, "unexpected '<'", l)
    ELSE LexError(self, "unexpected character (expecting attribute value)", l)

InSafeStringValue(self, l, c) ==
    IF SAFE_CHAR(c) THEN Push(self, c)
    ELSE IF c = LF
    THEN Goto(emit(emit(self, "ValueText"), "ValueFinish"), "LineStart")
    ELSE LexError(self, "illegal LDIF safe-string character", l)

InBase64Value(self, l, c) ==
    IF BASE64_CHAR(c) THEN Push(self, c)
    ELSE IF c = LF
    THEN Goto(emit(emit(self, "ValueBase64"), "ValueFinish"), "LineStart")
    ELSE LexError(self, "unexpected character while expecting base64 code", l)

InWhitespaceBefore(self, l, c) ==
    IF c = SPACE THEN self
    ELSE IF self.state = "WhitespaceBefore(SafeStringValue)" /\ SAFE_INIT_CHAR(c)
    THEN Start(self, l, c, "SafeStringValue")
    ELSE IF self.state = "WhitespaceBefore(Base64Value)" /\ BASE64_CHAR(c)
    THEN Start(self, l, c, "Base64Value")
    ELSE LexError(self, "unexpected character while expecting value after attribute type", l)

\* a variant that lets every byte pass in a comment line
LexByte_comment(self, l, c) ==
    IF self.state = "CommentLine" THEN InCommentLine(self, l, c)
    ELSE IF c >= 128 THEN LexError(self, "non-ASCII character", l)
    ELSE CASE self.state = "LineStart" -> InLineStart(self, l, c)
           [] self.state = "AttributeType" -> InAttributeType(self, l, c)
           [] self.state = "ValueColon" -> InValueColon(self, l, c)
           [] self.state = "SafeStringValue" -> InSafeStringValue(self, l, c)
           [] self.state = "Base64Value" -> InBase64Value(self, l, c)
           [] OTHER -> InWhitespaceBefore(self, l, c)

\* the body of the for loop of Lexer::loc_write, for the byte c at location l
LexByte(self, l, c) ==
    IF c >= 128 THEN LexError(self, "non-ASCII character", l)
    ELSE CASE self.state = "LineStart" -> InLineStart(self, l, c)
           [] self.state = "CommentLine" -> InCommentLine(self, l, c)
           [] self.state = "AttributeType" -> InAttributeType(self, l, c)
           [] self.state = "ValueColon" -> InValueColon(self, l, c)
           [] self.state = "SafeStringValue" -> InSafeStringValue(self, l, c)
           [] self.state = "Base64Value" -> InBase64Value(self, l, c)
           [] OTHER -> InWhitespaceBefore(self, l, c)

\* an arm that fails returns before self.state is assigned
KeepState(self, next) ==
    IF next.err # NoError THEN [next EXCEPT !.state = self.state] ELSE next

\* the for loop of Lexer::loc_write, the buffer taken half by half; a failure
\* ends the loop
RECURSIVE LexLoop(_, _, _)
LexLoop(self, l, buf) ==
    IF buf = <<>> THEN self
    ELSE IF Len(buf) = 1 THEN KeepState(self, LexByte(self, l, buf[1]))
    ELSE LET half == SubSeq(buf, 1, Len(buf) \div 2)
             first == LexLoop(self, l, half)
         IN  IF first.err # NoError THEN first
             ELSE LexLoop(first, FoldAfter(l, half),
                          SubSeq(buf, Len(half) + 1, Len(buf)))

\* a variant that finishes the value whenever the buffer ends
EmitOpenValue_finish(self) ==
    IF self.state = "SafeStringValue" THEN emit(emit(self, "ValueText"), "ValueFinish")
    ELSE IF self.state = "Base64Value" THEN emit(emit(self, "ValueBase64"), "ValueFinish")
    ELSE self

\* a variant that forgets the open value instead of handing it on
EmitOpenValue_drop(self) ==
    IF self.err = NoError /\ self.state \in {"SafeStringValue", "Base64Value"}
    THEN [self EXCEPT !.buf = <<>>]
    ELSE self

\* lexer.rs 200-204: a value that is still open when the buffer ends is
\* handed on as a value token
EmitOpenValue(self) ==
    IF self.state = "SafeStringValue" THEN emit(self, "ValueText")
    ELSE IF self.state = "Base64Value" THEN emit(self, "ValueBase64")
    ELSE self

\* Lexer::loc_write; emit does nothing once the loop has failed
Lexer_loc_write(self, l, buf) == EmitOpenValue(LexLoop(self, l, buf))

\* a variant that emits nothing for an end of file at the start of a line
Lexer_loc_flush_silent(self, l) ==
    IF self.state \in {"LineStart", "CommentLine"} THEN self
    ELSE IF self.state = "AttributeType"
    THEN LexError(self, "unexpected end of file inside attribute type", l)
    ELSE IF self.state = "Base64Value"
    THEN emit(emit(emit(self, "ValueBase64"), "ValueFinish"), "EntryFinish")
    ELSE emit(emit(emit(self, "ValueText"), "ValueFinish"), "EntryFinish")

\* a variant that ends a value at the end of the file without ValueFinish
Lexer_loc_flush_unfinished(self, l) ==
    IF self.state \in {"LineStart", "CommentLine"} THEN emit(self, "EntryFinish")
    ELSE IF self.state = "AttributeType"
    THEN LexError(self, "unexpected end of file inside attribute type", l)
    ELSE IF self.state = "Base64Value"
    THEN emit(emit(self, "ValueBase64"), "EntryFinish")
    ELSE emit(emit(self, "ValueText"), "EntryFinish")

Lexer_loc_flush(self, l) ==
    IF self.state \in {"LineStart", "CommentLine"} THEN emit(self, "EntryFinish")
    ELSE IF self.state = "AttributeType"
    THEN LexError(self, "unexpected end of file inside attribute type", l)
    ELSE IF self.state = "Base64Value"
    THEN emit(emit(emit(self, "ValueBase64"), "ValueFinish"), "EntryFinish")
    ELSE emit(emit(emit(self, "ValueText"), "ValueFinish"), "EntryFinish")

\* U+FFFD in UTF-8
REPLACEMENT_CHARACTER == <<239, 191, 189>>

\* String::from_utf8_lossy on the byte strings of the model: ASCII and U+FFFD
\* are kept, every other byte (0xFF, which no UTF-8 sequence contains) is
\* replaced by U+FFFD
RECURSIVE from_utf8_lossy(_)
from_utf8_lossy(v) ==
    IF v = <<>> THEN <<>>
    ELSE IF Head(v) < 128 THEN <<Head(v)>> \o from_utf8_lossy(Tail(v))
    ELSE IF Len(v) >= 3 /\ SubSeq(v, 1, 3) = REPLACEMENT_CHARACTER
    THEN REPLACEMENT_CHARACTER \o from_utf8_lossy(SubSeq(v, 4, Len(v)))
    ELSE REPLACEMENT_CHARACTER \o from_utf8_lossy(Tail(v))

\* is_ldif_safe_string
is_ldif_safe_string(v) ==
    /\ v # <<>> => v[1] \notin {Ord("<"), Ord(":")}
    /\ \A i \in 1..Len(v) : v[i] \notin {0, LF, CR, SPACE} /\ v[i] <= 127

\* write_attrval: the bytes written to w
write_attrval(attr, v) ==
    attr \o B(<<":">>) \o
    IF is_ldif_safe_string(v)
    THEN B(<<" ">>) \o from_utf8_lossy(v) \o <<LF>>
    ELSE B(<<":">>) \o EncodeWriter_flush(EncodeWriter_write(EncodeWriter_new, v)).inner
         \o <<LF>>

(***************************************************************************)
(* The producer of the Lexer: WriteLocWrapper over Lexer over              *)
(* EntryTokenWriter, fed a byte string in pieces and then flushed          *)
(***************************************************************************)
LexBytes == {Ord("a"), Ord(":"), LF, SPACE, Ord("#")}

\* scenario S1, every line terminated by LF as in tests::it_works
S1 ==
    B(<<"#", " ", "c", "\n">>)
    \o B(<<"d", "n", ":", "c", "n", "=", "a", "d", "m", "i", "n", ",",
           "o", "u", "=", "s", "a", ",", "o", "=", "s", "y", "s", "t", "e", "m", "\n">>)
    \o B(<<"c", "n", ":", " ", "a", "d", "m", "i", "n", "\n">>)
    \o B(<<"s", "n", ":", ":", " ", "b", "m", "l", "j", "Z", "Q", "=", "=", "\n">>)
    \o B(<<"\n">>)
    \o B(<<"d", "n", ":", " ", "c", "n", "=", "b", "o", "b", "\n">>)

\* the lines documents are made of; the last one is not terminated
DocLines ==
    { B(<<"v", "e", "r", "s", "i", "o", "n", ":", "1", "\n">>),
      B(<<"d", "n", ":", "x", "\n">>),
      B(<<"c", "n", ":", ":", "e", "A", "=", "=", "\n">>),
      B(<<"\n">>),
      B(<<"v", "e", "r", "s", "i", "o", "n", ":", ":", " ", "M", "Q", "=", "=", "\n">>),
      B(<<"C", "N", ":", "y">>) }

RECURSIVE Documents(_)
Documents(n) ==
    IF n = 0 THEN {<<>>}
    ELSE Documents(n - 1) \cup { d \o l : d \in Documents(n - 1), l \in DocLines }

\* attribute lines whose names are made of a letter in either case, a digit,
\* '-', '_' and ';', and the line of the NetIQ attribute loaded_class_count
NameBytes == {Ord("a"), Ord("Z"), Ord("1"), Ord("-"), Ord("_"), Ord(";")}

NameLines ==
    {name \o B(<<":", " ", "1", "\n">>) : name \in SeqsUpTo(NameBytes, MaxNameLen) \ {<<>>}}
    \cup {B(<<"l", "o", "a", "d", "e", "d", "_", "c", "l", "a", "s", "s", "_",
              "c", "o", "u", "n", "t", ":", " ", "1", "\n">>)}

\* one input that leaves the Lexer in each of its states (LineStart,
\* CommentLine, AttributeType, ValueColon, WhitespaceBefore, SafeStringValue,
\* Base64Value), then one probe byte, then the end of the input or more bytes
ProbePrefixes ==
    {<<>>, B(<<"#">>), B(<<"a">>), B(<<"a", ":">>), B(<<"a", ":", " ">>),
     B(<<"a", ":", " ", "x">>), B(<<"a", ":", ":">>), B(<<"a", ":", ":", "Q">>),
     B(<<"a", ":", "x", "\n">>)}

ProbeBytes ==
    {0, LF, CR, SPACE, Ord("#"), Ord("1"), Ord(":"), Ord(";"), Ord("<"), Ord("="),
     Ord("a"), Ord("_"), 126, 127, 128, 255}

ProbeInputs ==
    ProbePrefixes
    \cup {p \o <<b>> \o t : p \in ProbePrefixes, b \in ProbeBytes,
                            t \in {<<>>, B(<<"\n">>), B(<<"a", ":", "b">>)}}

LexInputs ==
    SeqsUpTo(LexBytes, MaxLexLen) \cup {S1} \cup Documents(MaxLines)
    \cup NameLines \cup ProbeInputs

\* values for write_attrval: the empty one, every byte as a first and as a
\* second byte, and every byte up to 'a' after a space
AttrValues ==
    {<<>>} \cup {<<b>> : b \in 0..255} \cup {<<LetterA, b>> : b \in 0..255}
    \cup {<<SPACE, b>> : b \in 0..LetterA}

\* what is handed to write_attrval: one value of cn, or two attribute values
WrittenLines ==
    {<<[attr |-> B(<<"c", "n">>), value |-> v]>> : v \in AttrValues}
    \cup {<<[attr |-> B(<<"c", "n">>), value |-> v], [attr |-> a, value |-> w]>> :
             v \in {<<LetterA>>, <<255>>}, w \in {<<LetterA>>, <<SPACE>>, <<>>},
             a \in {B(<<"C", "N">>), B(<<"s", "n">>)}}

\* the attribute list of the writers made by new_for_attributes
FixedAttributes == << B(<<"d", "n">>), B(<<"c", "n">>) >>

RECURSIVE Sum(_)
Sum(s) == IF s = <<>> THEN 0 ELSE Head(s) + Sum(Tail(s))

Delivered == Sum(cuts)

\* inputs no longer than MaxLexLen are written in at most MaxPieces pieces,
\* longer ones in one piece
MostPieces == IF Len(source) <= MaxLexLen THEN MaxPieces ELSE 1

\* the writers are built by new or by new_for_attributes, with or without
\* set_ignore_entries_without_dn; the byte strings go to the writer of new
InitLexer ==
    /\ StageIdle
    /\ CodecIdle
    /\ CompareIdle
    /\ FilterIdle
    /\ ProductIdle
    /\ JsonIdle
    /\ SkipperIdle
    /\ FrontIdle
    /\ EscapeIdle
    /\ cuts = <<>>
    /\ lloc = LocNew
    /\ \/ /\ source \in LexInputs
          /\ written = <<>>
          /\ \E all \in BOOLEAN, ignore \in BOOLEAN :
                /\ Len(source) <= MaxLexLen => all /\ ~ignore
                /\ lexer = Lexer_new(EntryTokenWriter_new(
                               all, IF all THEN <<>> ELSE FixedAttributes, ignore))
          /\ lpc = "writing"
       \/ /\ source = <<>>
          /\ written \in WrittenLines
          /\ lexer = Lexer_new(EntryTokenWriter_new(TRUE, <<>>, FALSE))
          /\ lpc = "composing"

\* write_attrval for each pair in turn, into the source of the Lexer
RECURSIVE Composed(_)
Composed(w) ==
    IF w = <<>> THEN <<>>
    ELSE write_attrval(w[1].attr, w[1].value) \o Composed(Tail(w))

compose ==
    /\ lpc = "composing"
    /\ source' = Composed(written)
    /\ lpc' = "writing"
    /\ UNCHANGED <<cuts, lloc, lexer, written, stageVars, codecVars, compareVars, filterVars, productVars, jsonVars, skipperVars, frontVars, escapeVars>>

\* WriteLocWrapper::write with the next n bytes of the source
lex_write(n) ==
    /\ lpc = "writing"
    /\ Len(cuts) < MostPieces
    /\ Len(cuts) = MostPieces - 1 => n = Len(source) - Delivered
    /\ lexer' = Lexer_loc_write(lexer, lloc,
                                SubSeq(source, Delivered + 1, Delivered + n))
    /\ IF lexer'.err # NoError
       THEN /\ lpc' = "failed"
            /\ UNCHANGED <<lloc, cuts>>
       ELSE /\ lpc' = "writing"
            /\ lloc' = FoldAfter(lloc, SubSeq(source, Delivered + 1, Delivered + n))
            /\ cuts' = Append(cuts, n)
    /\ UNCHANGED <<source, written, stageVars, codecVars, compareVars, filterVars, productVars, jsonVars, skipperVars, frontVars, escapeVars>>

\* WriteLocWrapper::flush, once, after the last write
lex_flush ==
    /\ lpc = "writing"
    /\ Delivered = Len(source)
    /\ lexer' = Lexer_loc_flush(lexer, lloc)
    /\ lpc' = IF lexer'.err # NoError THEN "failed" ELSE "flushed"
    /\ UNCHANGED <<source, cuts, lloc, written, stageVars, codecVars, compareVars, filterVars, productVars, jsonVars, skipperVars, frontVars, escapeVars>>

NextLexer ==
    \/ compose
    \/ \E n \in 1..(Len(source) - Delivered) : lex_write(n)
    \/ lex_flush

SpecLexer == InitLexer /\ [][NextLexer]_vars

(***************************************************************************)
(* Properties of the Lexer and of the EntryTokenWriter                     *)
(***************************************************************************)
Tokens == lexer.token_receiver.tokens
Calls == lexer.token_receiver.calls
Writer == lexer.token_receiver.writer

KindSegment(tokens) ==
    [i \in 1..Len(tokens) |-> <<tokens[i].kind, tokens[i].segment>>]

S1Expected ==
    << <<"AttributeType", B(<<"d", "n">>)>>,
       <<"ValueText", B(<<"c", "n", "=", "a", "d", "m", "i", "n", ",", "o", "u", "=",
                          "s", "a", ",", "o", "=", "s", "y", "s", "t", "e", "m">>)>>,
       <<"ValueFinish", <<>>>>,
       <<"AttributeType", B(<<"c", "n">>)>>,
       <<"ValueText", B(<<"a", "d", "m", "i", "n">>)>>,
       <<"ValueFinish", <<>>>>,
       <<"AttributeType", B(<<"s", "n">>)>>,
       <<"ValueBase64", B(<<"b", "m", "l", "j", "Z", "Q", "=", "=">>)>>,
       <<"ValueFinish", <<>>>>,
       <<"EntryFinish", <<>>>>,
       <<"AttributeType", B(<<"d", "n">>)>>,
       <<"ValueText", B(<<"c", "n", "=", "b", "o", "b">>)>>,
       <<"ValueFinish", <<>>>>,
       <<"EntryFinish", <<>>>> >>

\* S1 was written in one loc_write and flushed
S1Lexed == source = S1 /\ cuts = <<Len(S1)>> /\ lpc = "flushed"

\* C5: lexing S1 with one loc_write followed by loc_flush yields exactly the
\* fourteen tokens AT dn, VT cn=admin,ou=sa,o=system, VF, AT cn, VT admin, VF,
\* AT sn, VB bmljZQ==, VF, EF, AT dn, VT cn=bob, VF, EF
S1TokenSequence == S1Lexed => KindSegment(Tokens) = S1Expected

S1Witness == S1Lexed /\ Len(Tokens) = 14

\* the writer as it was constructed
Writer0 ==
    EntryTokenWriter_new(Writer.all_attributes,
                         IF Writer.all_attributes THEN <<>> ELSE FixedAttributes,
                         Writer.ignore_entries_without_dn)

\* one loc_write of the whole input followed by loc_flush
LexWhole(s) ==
    LET w == Lexer_loc_write(Lexer_new(Writer0), LocNew, s)
    IN  IF w.err # NoError THEN w ELSE Lexer_loc_flush(w, FoldAfter(LocNew, s))

WholeTokens == LexWhole(source).token_receiver.tokens
WholeAccepts == LexWhole(source).err = NoError

IsValueToken(t) == t.kind \in {"ValueText", "ValueBase64"}

\* consecutive value tokens made one: kind and loc of the first, the
\* segments joined
RECURSIVE MergeValues(_)
MergeValues(tokens) ==
    IF Len(tokens) <= 1 THEN tokens
    ELSE IF IsValueToken(tokens[1]) /\ IsValueToken(tokens[2])
    THEN MergeValues(<<[tokens[1] EXCEPT !.segment = @ \o tokens[2].segment]>>
                     \o Tail(Tail(tokens)))
    ELSE <<tokens[1]>> \o MergeValues(Tail(tokens))

GroupStart(i) ==
    IF \E j \in 1..(i - 1) : Tokens[j].kind = "EntryFinish"
    THEN 1 + CHOOSE j \in 1..(i - 1) :
                 /\ Tokens[j].kind = "EntryFinish"
                 /\ \A k \in (j + 1)..(i - 1) : Tokens[k].kind # "EntryFinish"
    ELSE 1

IsVersion(j) ==
    /\ j = 1
    /\ to_ascii_lowercase(Tokens[1].segment) = B(<<"v", "e", "r", "s", "i", "o", "n">>)

\* the attribute lines of the group that the entry-finish token i closes
AllLines(i) == { j \in GroupStart(i)..(i - 1) : Tokens[j].kind = "AttributeType" }

\* the same without the version line that starts the input
EntryLines(i) == { j \in AllLines(i) : ~IsVersion(j) }

Min(S) == CHOOSE x \in S : \A y \in S : x <= y

\* the group is one the writer is configured to skip
Skipped(i) ==
    /\ Writer.ignore_entries_without_dn
    /\ to_ascii_lowercase(Tokens[Min(EntryLines(i))].segment) # B(<<"d", "n">>)

SinkDiscipline(i) ==
    /\ Calls[i] \in {0, 1}
    /\ Tokens[i].kind # "EntryFinish" => Calls[i] = 0
    /\ Calls[i] = 1 => i > 1 /\ Tokens[i - 1].kind = "ValueFinish"

\* the discipline of the sink where the version line counts as an attribute
\* line and no group is skipped: one call for every group with attribute lines
SinkOncePerGroup ==
    \A i \in 1..Len(Tokens) :
        /\ SinkDiscipline(i)
        /\ Tokens[i].kind = "EntryFinish" => (Calls[i] = 1 <=> AllLines(i) # {})

\* C7: the sink is invoked only while an entry-finish token is handled, once
\* for every group that has attribute lines and after all its values were
\* finished, and never for a group without attribute lines; the version line
\* that starts the input is not an attribute line and, with
\* ignore_entries_without_dn set, a group whose first attribute is not dn is
\* skipped
SinkOncePerEntry ==
    \A i \in 1..Len(Tokens) :
        /\ SinkDiscipline(i)
        /\ Tokens[i].kind = "EntryFinish" =>
               (Calls[i] = 1 <=> EntryLines(i) # {} /\ ~Skipped(i))

\* a document gave an entry, a repeated entry-finish gave none
SinkWitness ==
    /\ lpc = "flushed"
    /\ \E i \in 1..Len(Tokens) : Calls[i] = 1
    /\ \E i \in 2..Len(Tokens) :
          /\ Tokens[i].kind = "EntryFinish" /\ Tokens[i - 1].kind = "EntryFinish"
          /\ Calls[i] = 0

(***************************************************************************)
(* entry.rs: Entry.  An Option is a sequence of at most one element and a  *)
(* HashMap is the sequence of its keys beside the sequence of its values.  *)
(***************************************************************************)
DN == B(<<"d", "n">>)

\* Entry::get: the values of the attribute, none when the entry has no such key
Entry_get(entry, attr) ==
    IF IndexGet(entry.attr2index, to_ascii_lowercase(attr)) = None THEN <<>>
    ELSE entry.attr2values[IndexGet(entry.attr2index, to_ascii_lowercase(attr))]

\* Entry::get_one_str
get_one_str(entry, attr) ==
    IF Entry_get(entry, attr) = <<>> THEN <<>>
    ELSE <<from_utf8_lossy(Entry_get(entry, attr)[1])>>

\* Entry::attributes: the attributes that have values, in the order of the
\* keys (the order of the HashMap is not specified)
Entry_attributes(entry) ==
    SelectSeq([i \in 1..Len(entry.attr2index) |->
                  [name |-> entry.attrnames[i], lowercase |-> entry.attr2index[i]]],
              LAMBDA a : Entry_get(entry, a.lowercase) # <<>>)

(***************************************************************************)
(* bin/lcompare.rs                                                         *)
(***************************************************************************)
\* str::to_lowercase on the strings of the model (ASCII and U+FFFD)
to_lowercase(s) == to_ascii_lowercase(s)

Lowercased(list) == [i \in 1..Len(list) |-> to_lowercase(list[i])]

\* parse_arguments
parse_arguments(cl) ==
    [invert |-> cl.invert # (cl.attributes = <<>>),
     force |-> cl.force,
     attrs |-> IF cl.invert # (cl.attributes = <<>>)
               THEN Lowercased(cl.attributes) \o Lowercased(cl.defer)
               ELSE Lowercased(cl.attributes),
     defer_attrs |-> Lowercased(cl.defer)]

\* the length of the longest common prefix
Common(a, b) ==
    CHOOSE k \in 0..Len(a) :
        /\ k <= Len(b)
        /\ \A j \in 1..k : a[j] = b[j]
        /\ k = Len(a) \/ k = Len(b) \/ a[k + 1] # b[k + 1]

\* Ord::cmp of str: byte by byte, a proper prefix first
str_cmp(a, b) ==
    IF a = b THEN "Equal"
    ELSE IF Common(a, b) = Len(a) THEN "Less"
    ELSE IF Common(a, b) = Len(b) THEN "Greater"
    ELSE IF a[Common(a, b) + 1] < b[Common(a, b) + 1] THEN "Less"
    ELSE "Greater"

\* DnKey::cmp: the shorter first, str order among equal lengths
DnKey_cmp(a, b) ==
    IF Len(a) < Len(b) THEN "Less"
    ELSE IF Len(a) > Len(b) THEN "Greater"
    ELSE str_cmp(a, b)

\* BTreeMap::insert: the value of an equal key is replaced
BTreeMap_insert(map, key, entry) ==
    SelectSeq(map, LAMBDA p : DnKey_cmp(p.key, key) = "Less")
    \o <<[key |-> key, entry |-> entry]>>
    \o SelectSeq(map, LAMBDA p : DnKey_cmp(p.key, key) = "Greater")

\* EntryBTreeMap::write_entry: entries without dn are dropped
write_entry(map, entry) ==
    IF get_one_str(entry, DN) = <<>> THEN map
    ELSE BTreeMap_insert(map, to_lowercase(get_one_str(entry, DN)[1]), entry)

\* read_entries: the entries of the input go to write_entry one by one
RECURSIVE read_entries(_)
read_entries(file) ==
    IF file = <<>> THEN <<>>
    ELSE write_entry(read_entries(SubSeq(file, 1, Len(file) - 1)), file[Len(file)])

\* enum Diff
Diff_Add(x) == [kind |-> "Add", old |-> <<>>, new |-> <<x>>]
Diff_Delete(x) == [kind |-> "Delete", old |-> <<x>>, new |-> <<>>]
Diff_Modify(x, y) == [kind |-> "Modify", old |-> <<x>>, new |-> <<y>>]

\* what SortedComparison::next returns and what it leaves in the iterators
Took(diff, old_iter, new_iter) ==
    [diff |-> diff, old_iter |-> old_iter, new_iter |-> new_iter]

\* the two compare_items closures: Ord::cmp of the attribute names in
\* ModifyChangeRecord::new, the DnKeys of the map items in compare_entries
Compare(compare_items, old, new) ==
    IF compare_items = "Ord::cmp" THEN str_cmp(old, new)
    ELSE DnKey_cmp(old.key, new.key)

\* a next that takes from old first whenever the two heads differ
SortedComparison_next_old_first(old_iter, new_iter, compare_items) ==
    IF old_iter # <<>> /\ new_iter # <<>>
    THEN IF Compare(compare_items, Head(old_iter), Head(new_iter)) # "Equal"
         THEN <<Took(Diff_Delete(Head(old_iter)), Tail(old_iter), new_iter)>>
         ELSE <<Took(Diff_Modify(Head(old_iter), Head(new_iter)),
                     Tail(old_iter), Tail(new_iter))>>
    ELSE IF old_iter # <<>>
    THEN <<Took(Diff_Delete(Head(old_iter)), Tail(old_iter), new_iter)>>
    ELSE IF new_iter # <<>>
    THEN <<Took(Diff_Add(Head(new_iter)), old_iter, Tail(new_iter))>>
    ELSE <<>>

\* SortedComparison::next
SortedComparison_next(old_iter, new_iter, compare_items) ==
    IF old_iter # <<>> /\ new_iter # <<>>
    THEN IF Compare(compare_items, Head(old_iter), Head(new_iter)) = "Less"
         THEN <<Took(Diff_Delete(Head(old_iter)), Tail(old_iter), new_iter)>>
         ELSE IF Compare(compare_items, Head(old_iter), Head(new_iter)) = "Greater"
         THEN <<Took(Diff_Add(Head(new_iter)), old_iter, Tail(new_iter))>>
         ELSE <<Took(Diff_Modify(Head(old_iter), Head(new_iter)),
                     Tail(old_iter), Tail(new_iter))>>
    ELSE IF old_iter # <<>>
    THEN <<Took(Diff_Delete(Head(old_iter)), Tail(old_iter), new_iter)>>
    ELSE IF new_iter # <<>>
    THEN <<Took(Diff_Add(Head(new_iter)), old_iter, Tail(new_iter))>>
    ELSE <<>>

\* A changerecord is its changetype, its dn, the attribute-value lines of an
\* add and the operations of a modify; write_attrval(w, attr, value) is the
\* pair <<attr, value>>.

\* attrs.iter().any(|arg_attr| arg_attr == lattr)
Listed(attrs, lattr) == \E i \in 1..Len(attrs) : attrs[i] = lattr

\* the attribute-value lines of the attributes, in order
RECURSIVE AttrVals(_, _)
AttrVals(entry, attributes) ==
    IF attributes = <<>> THEN <<>>
    ELSE [i \in 1..Len(Entry_get(entry, Head(attributes).name)) |->
             <<Head(attributes).name, Entry_get(entry, Head(attributes).name)[i]>>]
         \o AttrVals(entry, Tail(attributes))

\* write_add: nothing for an entry without dn
write_add(entry, attrs, invert) ==
    IF get_one_str(entry, DN) = <<>> THEN <<>>
    ELSE <<[changetype |-> "add",
            dn |-> get_one_str(entry, DN)[1],
            attrvals |-> AttrVals(entry,
                             SelectSeq(Entry_attributes(entry),
                                       LAMBDA a : /\ invert # Listed(attrs, a.lowercase)
                                                  /\ a.lowercase # DN)),
            ops |-> <<>>]>>

\* write_delete
write_delete(dn) ==
    [changetype |-> "delete", dn |-> dn, attrvals |-> <<>>, ops |-> <<>>]

\* Vec::sort of distinct strings
RECURSIVE Sorted(_)
Sorted(S) ==
    IF S = {} THEN <<>>
    ELSE LET least == CHOOSE s \in S : \A u \in S : str_cmp(s, u) # "Greater"
         IN  <<least>> \o Sorted(S \ {least})

\* old_attrs and new_attrs of ModifyChangeRecord::new
SortedAttrs(entry, attrs, invert) ==
    IF entry = <<>> THEN <<>>
    ELSE Sorted({ entry[1].attr2index[i] : i \in
                    { j \in 1..Len(entry[1].attr2index) :
                        /\ entry[1].attr2values[j] # <<>>
                        /\ entry[1].attr2index[j] # DN
                        /\ invert # Listed(attrs, entry[1].attr2index[j]) } })

Contains(values, v) == \E i \in 1..Len(values) : values[i] = v

\* the values that are not among the others
Without(values, others) == SelectSeq(values, LAMBDA v : ~Contains(others, v))

ModifyChangeRecordOp(typ, attr, values) ==
    [typ |-> typ, attr |-> attr, values |-> values]

\* if !op.values.is_empty() { modify.ops.push(op) }
PushNonEmpty(typ, attr, values) ==
    IF values = <<>> THEN <<>> ELSE <<ModifyChangeRecordOp(typ, attr, values)>>

\* a variant that never replaces
ReplaceOrDeleteAdd_never(old_attr, new_attr, del_values, add_values, new_count) ==
    PushNonEmpty("Delete", old_attr, del_values)
    \o PushNonEmpty("Add", new_attr, add_values)

\* the Diff::Modify arm once del_values and add_values are known
ReplaceOrDeleteAdd(old_attr, new_attr, del_values, add_values, new_count) ==
    IF Len(add_values) = 1 /\ Len(del_values) = 1 /\ new_count = 1
    THEN <<ModifyChangeRecordOp("Replace", new_attr, add_values)>>
    ELSE PushNonEmpty("Delete", old_attr, del_values)
         \o PushNonEmpty("Add", new_attr, add_values)

\* the operations that ModifyChangeRecord::new pushes for one Diff
OpsOf(old, new, diff) ==
    IF diff.kind = "Add"
    THEN PushNonEmpty("Add", diff.new[1], Entry_get(new, diff.new[1]))
    ELSE IF diff.kind = "Delete"
    THEN IF old = <<>> THEN <<>>
         ELSE PushNonEmpty("Delete", diff.old[1], Entry_get(old[1], diff.old[1]))
    ELSE ReplaceOrDeleteAdd(
             diff.old[1], diff.new[1],
             IF old = <<>> THEN <<>>
             ELSE Without(Entry_get(old[1], diff.old[1]), Entry_get(new, diff.new[1])),
             IF old = <<>> THEN Entry_get(new, diff.new[1])
             ELSE Without(Entry_get(new, diff.new[1]), Entry_get(old[1], diff.old[1])),
             Len(Entry_get(new, diff.new[1])))

\* for op in comparison { .. } of ModifyChangeRecord::new
RECURSIVE ModifyOps(_, _, _, _)
OpsFrom(old, new, took) ==
    OpsOf(old, new, took.diff) \o ModifyOps(old, new, took.old_iter, took.new_iter)

ModifyOps(old, new, old_iter, new_iter) ==
    IF SortedComparison_next(old_iter, new_iter, "Ord::cmp") = <<>> THEN <<>>
    ELSE OpsFrom(old, new, SortedComparison_next(old_iter, new_iter, "Ord::cmp")[1])

\* if modify.ops.is_empty() { None } else { Some(modify) }
SomeModify(dn, ops) ==
    IF ops = <<>> THEN <<>>
    ELSE <<[changetype |-> "modify", dn |-> dn, attrvals |-> <<>>, ops |-> ops]>>

\* ModifyChangeRecord::new; old is an Option
ModifyChangeRecord_new(old, new, attrs, invert) ==
    IF get_one_str(new, DN) = <<>> THEN <<>>
    ELSE SomeModify(get_one_str(new, DN)[1],
                    ModifyOps(old, new, SortedAttrs(old, attrs, invert),
                              SortedAttrs(<<new>>, attrs, invert)))

(***************************************************************************)
(* lcompare at work: do_io reads the two inputs, compare_entries walks the *)
(* two maps and writes the deferred records at the end                     *)
(***************************************************************************)
\* the attribute names as OLD and as NEW spell them
OldNames == << B(<<"d", "n">>), B(<<"X">>), B(<<"y">>) >>
NewNames == << B(<<"D", "N">>), B(<<"x">>), B(<<"Y">>) >>

\* dns that differ in case only, a longer one, and one that is not UTF-8
CaseDns == { B(<<"a">>), B(<<"A">>) }
Dns == CaseDns \cup { B(<<"b", "b">>), <<255>> }

\* an entry as the EntryTokenWriter of read_entries hands it to write_entry
MkEntry(names, dn, xs, ys) ==
    [attrnames |-> names,
     attr2index |-> [i \in 1..Len(names) |-> to_ascii_lowercase(names[i])],
     attr2values |-> << <<dn>>, xs, ys >>]

\* one entry with up to MaxValues values of x and with or without y, or up
\* to MaxEntries entries that have the one value 1 of x, or the entry a with
\* the values 1 and 3 of x
Files(names) ==
    { <<MkEntry(names, dn, xs, ys)>> :
          dn \in CaseDns,
          xs \in SeqsUpTo({B(<<"1">>), B(<<"2">>)}, MaxValues),
          ys \in {<<>>, <<B(<<"1">>)>>} }
    \cup SeqsUpTo({ MkEntry(names, dn, <<B(<<"1">>)>>, <<>>) : dn \in Dns }, MaxEntries)
    \cup { <<MkEntry(names, B(<<"a">>), <<B(<<"1">>), B(<<"3">>)>>, <<>>)>> }

\* with or without --force and --defer y; -v or the attribute list x only
\* with --force and without --defer
CommandLines ==
    { cl \in [force : BOOLEAN, invert : BOOLEAN,
              attributes : {<<>>, <<B(<<"x">>)>>}, defer : {<<>>, <<B(<<"y">>)>>}] :
          cl.invert \/ cl.attributes # <<>> => cl.force /\ cl.defer = <<>> }

\* up to MaxEntries entries with the dn a or bb, the value x of x and the
\* value 1 or 2 of y
DeferFiles(names, x) ==
    SeqsUpTo({ MkEntry(names, dn, <<x>>, <<y>>) :
                   dn \in {B(<<"a">>), B(<<"b", "b">>)}, y \in {B(<<"1">>), B(<<"2">>)} },
             MaxEntries)

\* --defer y with every combination of --force, -v and an attribute list
DeferLines ==
    [force : BOOLEAN, invert : BOOLEAN,
     attributes : {<<>>, <<B(<<"x">>)>>, <<B(<<"Y">>)>>}, defer : {<<B(<<"y">>)>>}]

InitCompare ==
    /\ StageIdle
    /\ CodecIdle
    /\ LexerIdle
    /\ FilterIdle
    /\ ProductIdle
    /\ JsonIdle
    /\ SkipperIdle
    /\ FrontIdle
    /\ EscapeIdle
    /\ \/ /\ args \in CommandLines
          /\ old_file \in Files(OldNames)
          /\ new_file \in Files(NewNames)
       \/ /\ args \in DeferLines
          /\ old_file \in DeferFiles(OldNames, B(<<"1">>))
          /\ new_file \in DeferFiles(NewNames, B(<<"2">>))
    /\ params = parse_arguments(args)
    /\ old_entries = <<>>
    /\ new_entries = <<>>
    /\ comparison = <<>>
    /\ deferred_deletes = <<>>
    /\ deferred_modifies = <<>>
    /\ stdout = <<>>
    /\ stderr = <<>>
    /\ cpc = "start"

\* do_io up to the construction of the SortedComparison
do_read ==
    /\ cpc = "start"
    /\ old_entries' = read_entries(old_file)
    /\ new_entries' = read_entries(new_file)
    /\ comparison' = [old_iter |-> old_entries', new_iter |-> new_entries']
    /\ cpc' = "comparing"
    /\ UNCHANGED <<args, params, old_file, new_file, deferred_deletes,
                   deferred_modifies, stdout, stderr>>
    /\ UNCHANGED <<stageVars, codecVars, lexerVars, filterVars, productVars, jsonVars, skipperVars, frontVars, escapeVars>>

\* the Diff::Add arm
OnAdd(new_entry) ==
    /\ stdout' = stdout \o write_add(new_entry, params.attrs, params.invert)
    /\ deferred_modifies' =
           deferred_modifies
           \o ModifyChangeRecord_new(<<>>, new_entry, params.defer_attrs, FALSE)
    /\ UNCHANGED <<deferred_deletes, stderr>>

\* a variant that writes the delete record without --force too
OnDelete_forced(old_entry) ==
    /\ deferred_deletes' = deferred_deletes \o get_one_str(old_entry, DN)
    /\ UNCHANGED <<stdout, deferred_modifies, stderr>>

\* the Diff::Delete arm
OnDelete(old_entry) ==
    /\ deferred_deletes' =
           IF params.force THEN deferred_deletes \o get_one_str(old_entry, DN)
           ELSE deferred_deletes
    /\ stderr' =
           IF params.force THEN stderr ELSE stderr \o get_one_str(old_entry, DN)
    /\ UNCHANGED <<stdout, deferred_modifies>>

\* the Diff::Modify arm
OnModify(old_entry, new_entry) ==
    /\ stdout' = stdout \o ModifyChangeRecord_new(<<old_entry>>, new_entry,
                                                  params.attrs, params.invert)
    /\ deferred_modifies' =
           deferred_modifies
           \o ModifyChangeRecord_new(<<old_entry>>, new_entry,
                                     params.defer_attrs, FALSE)
    /\ UNCHANGED <<deferred_deletes, stderr>>

\* one turn of for op in comparison { .. } of compare_entries
compare_next ==
    /\ cpc = "comparing"
    /\ SortedComparison_next(comparison.old_iter, comparison.new_iter, "old_dn.cmp(new_dn)") # <<>>
    /\ \E took \in {SortedComparison_next(comparison.old_iter, comparison.new_iter,
                                         "old_dn.cmp(new_dn)")[1]} :
          /\ comparison' = [old_iter |-> took.old_iter, new_iter |-> took.new_iter]
          /\ IF took.diff.kind = "Add" THEN OnAdd(took.diff.new[1].entry)
             ELSE IF took.diff.kind = "Delete" THEN OnDelete(took.diff.old[1].entry)
             ELSE OnModify(took.diff.old[1].entry, took.diff.new[1].entry)
    /\ UNCHANGED <<args, params, old_file, new_file, old_entries, new_entries, cpc>>
    /\ UNCHANGED <<stageVars, codecVars, lexerVars, filterVars, productVars, jsonVars, skipperVars, frontVars, escapeVars>>

\* an iteration in the order of the pushes
Reverse_not(s) == s

\* deferred_deletes.iter().rev()
Reverse(s) == [i \in 1..Len(s) |-> s[Len(s) + 1 - i]]

\* the end of compare_entries: the deferred modifies, then the deferred
\* deletes, last first
write_deferred ==
    /\ cpc = "comparing"
    /\ SortedComparison_next(comparison.old_iter, comparison.new_iter, "old_dn.cmp(new_dn)") = <<>>
    /\ stdout' = stdout
                 \o deferred_modifies
                 \o [i \in 1..Len(deferred_deletes) |->
                        write_delete(Reverse(deferred_deletes)[i])]
    /\ cpc' = "done"
    /\ UNCHANGED <<args, params, old_file, new_file, old_entries, new_entries,
                   comparison, deferred_deletes, deferred_modifies, stderr>>
    /\ UNCHANGED <<stageVars, codecVars, lexerVars, filterVars, productVars, jsonVars, skipperVars, frontVars, escapeVars>>

NextCompare ==
    \/ do_read
    \/ compare_next
    \/ write_deferred

SpecCompare == InitCompare /\ [][NextCompare]_vars

(***************************************************************************)
(* Properties of lcompare.  A directory is a set of entries; an entry is   *)
(* its dn, case ignored, and the set of its (attribute, value) pairs, the  *)
(* attribute's case ignored.                                               *)
(***************************************************************************)
Range(s) == { s[i] : i \in 1..Len(s) }

\* the (attribute, value) pairs of the lines
Pairs(attrvals) == { <<to_ascii_lowercase(av[1]), av[2]>> : av \in Range(attrvals) }

\* the entry as a directory holds it
Stored(entry) ==
    [dn |-> to_ascii_lowercase(Entry_get(entry, DN)[1]),
     attrs |-> UNION { { <<entry.attr2index[i], v>> : v \in Range(entry.attr2values[i]) } :
                       i \in { j \in 1..Len(entry.attr2index) : entry.attr2index[j] # DN } }]

Directory(file) == { Stored(e) : e \in Range(file) }

\* every entry has a dn and no two dns of the file are equal ignoring case
UniqueDns(file) ==
    /\ \A i \in 1..Len(file) : Entry_get(file[i], DN) # <<>>
    /\ \A i, j \in 1..Len(file) :
           i # j => Stored(file[i]).dn # Stored(file[j]).dn

\* every dn of the file is UTF-8
Utf8Dns(file) ==
    \A i \in 1..Len(file) :
        \A k \in 1..Len(Entry_get(file[i], DN)) :
            from_utf8_lossy(Entry_get(file[i], DN)[k]) = Entry_get(file[i], DN)[k]

OpPairs(op) == { <<to_ascii_lowercase(op.attr), v>> : v \in Range(op.values) }

\* one operation of a modify record: add requires the values to be new,
\* delete requires them to be there
ApplyOp(st, op) ==
    IF op.typ = "Add"
    THEN [ok |-> st.ok /\ OpPairs(op) \cap st.attrs = {},
          attrs |-> st.attrs \cup OpPairs(op)]
    ELSE IF op.typ = "Delete"
    THEN [ok |-> st.ok /\ OpPairs(op) \subseteq st.attrs,
          attrs |-> st.attrs \ OpPairs(op)]
    ELSE [ok |-> st.ok,
          attrs |-> { p \in st.attrs : p[1] # to_ascii_lowercase(op.attr) }
                    \cup OpPairs(op)]

RECURSIVE ApplyOps(_, _)
ApplyOps(st, ops) ==
    IF ops = <<>> THEN st
    ELSE ApplyOps(ApplyOp(st, Head(ops)), Tail(ops))

\* the entries of the directory that the record names
Named(dir, rec) == { e \in dir.entries : e.dn = to_ascii_lowercase(rec.dn) }

\* one changerecord: add requires the entry to be new, delete and modify
\* require it to be there
ApplyRecord(dir, rec) ==
    IF rec.changetype = "add"
    THEN [ok |-> dir.ok /\ Named(dir, rec) = {},
          entries |-> dir.entries
                      \cup {[dn |-> to_ascii_lowercase(rec.dn),
                             attrs |-> Pairs(rec.attrvals)]}]
    ELSE IF rec.changetype = "delete"
    THEN [ok |-> dir.ok /\ Named(dir, rec) # {},
          entries |-> dir.entries \ Named(dir, rec)]
    ELSE [ok |-> /\ dir.ok
                 /\ Named(dir, rec) # {}
                 /\ \A e \in Named(dir, rec) :
                        ApplyOps([ok |-> TRUE, attrs |-> e.attrs], rec.ops).ok,
          entries |-> (dir.entries \ Named(dir, rec))
                      \cup { [e EXCEPT !.attrs =
                                 ApplyOps([ok |-> TRUE, attrs |-> e.attrs], rec.ops).attrs] :
                             e \in Named(dir, rec) }]

RECURSIVE ApplyAll(_, _)
ApplyAll(dir, recs) ==
    IF recs = <<>> THEN dir
    ELSE ApplyAll(ApplyRecord(dir, Head(recs)), Tail(recs))

\* the records written, applied in order to the entries of OLD
Applied == ApplyAll([ok |-> TRUE, entries |-> Directory(old_file)], stdout)

\* lcompare --force OLD NEW, with or without --defer, has run on two sets of
\* entries
ForcedRun ==
    /\ cpc = "done"
    /\ args.force /\ ~args.invert /\ args.attributes = <<>>
    /\ UniqueDns(old_file) /\ UniqueDns(new_file)

Transforms ==
    /\ Applied.ok
    /\ Applied.entries = Directory(new_file)
    /\ Directory(old_file) = Directory(new_file) => stdout = <<>>

\* C10: with --force and without an attribute list, for entry sets old and
\* new whose entries have dns that are unique ignoring case, the records
\* written, applied in order to old (values as sets), yield exactly new, and
\* nothing is written when old = new
ChangerecordsTransform == ForcedRun => Transforms

\* the same for the inputs all of whose dns are UTF-8
ChangerecordsTransformUtf8 ==
    ForcedRun /\ Utf8Dns(old_file) /\ Utf8Dns(new_file) => Transforms

\* an entry was added and another deleted, and the records applied give NEW
ChangerecordsWitness ==
    /\ ForcedRun /\ Utf8Dns(old_file) /\ Utf8Dns(new_file)
    /\ Len(stdout) = 2
    /\ stdout[1].changetype = "add"
    /\ stdout[2].changetype = "delete"
    /\ Transforms

\* a dn that is not UTF-8 was written as U+FFFD
LossyDnWitness ==
    /\ ForcedRun
    /\ \E i \in 1..Len(stdout) : stdout[i].dn = REPLACEMENT_CHARACTER
    /\ ~Transforms

(***************************************************************************)
(* filter/mod.rs: the search-filter evaluator                              *)
(***************************************************************************)
\* enum GlobPart
Wildcard == [kind |-> "Wildcard", byte |-> 0]
Literal(b) == [kind |-> "Literal", byte |-> b]

\* is_match(glob, value). Wild(i) is glob.get(i) == Some(&Wildcard) for an
\* index i from 0; Initial the states inserted before the loop; Advanced the
\* new_states of one value byte, Step those with their post_wildcard_states
\* (consecutive wildcards count as one); Scan the loop over the value.
is_match(glob, v) ==
    LET Wild(i) == i < Len(glob) /\ glob[i + 1].kind = "Wildcard"
        Initial ==
            {0} \cup
            IF Wild(0) /\ \E idx \in 1..(Len(glob) - 1) : ~Wild(idx)
            THEN {Min({idx \in 1..(Len(glob) - 1) : ~Wild(idx)})}
            ELSE {}
        Post(state) == Min({j \in (state + 1)..Len(glob) : ~Wild(j)})
        Advanced(old_states, value_byte) ==
            {state + 1 : state \in
                {s \in old_states :
                    /\ s < Len(glob)
                    /\ glob[s + 1].kind = "Literal"
                    /\ \/ value_byte = glob[s + 1].byte
                       \/ to_ascii_lowercase(<<value_byte>>)[1] = glob[s + 1].byte}}
            \cup {s \in old_states : Wild(s)}
        Step(new_states) ==
            new_states \cup {Post(s) : s \in {t \in new_states : Wild(t)}}
        RECURSIVE Scan(_, _)
        Scan(old_states, rest) ==
            IF rest = <<>> THEN old_states
            ELSE Scan(Step(Advanced(old_states, Head(rest))), Tail(rest))
    IN  Len(glob) \in Scan(Initial, v)

\* enum Filter: value holds the bytes of a Simple filter and the glob of a
\* Substring filter, filters the operands of And, Or and Not
Filter(kind, attr, ftype, v, filters) ==
    [kind |-> kind, attr |-> attr, ftype |-> ftype, value |-> v, filters |-> filters]

\* Filter::is_match: "true", "false", or "todo" where todo!() panics. all()
\* and any() stop at the first operand that decides them.
RECURSIVE Filter_is_match(_, _)
Filter_is_match(self, entry) ==
    CASE self.kind = "And" ->
             IF \A i \in 1..Len(self.filters) : Filter_is_match(self.filters[i], entry) = "true"
             THEN "true"
             ELSE Filter_is_match(
                      self.filters[Min({i \in 1..Len(self.filters) :
                                           Filter_is_match(self.filters[i], entry) # "true"})],
                      entry)
      [] self.kind = "Or" ->
             IF \A i \in 1..Len(self.filters) : Filter_is_match(self.filters[i], entry) = "false"
             THEN "false"
             ELSE Filter_is_match(
                      self.filters[Min({i \in 1..Len(self.filters) :
                                           Filter_is_match(self.filters[i], entry) # "false"})],
                      entry)
      [] self.kind = "Not" ->
             CASE Filter_is_match(self.filters[1], entry) = "true" -> "false"
               [] Filter_is_match(self.filters[1], entry) = "false" -> "true"
               [] OTHER -> "todo"
      [] self.kind = "Present" ->
             IF Len(Entry_get(entry, self.attr)) # 0 THEN "true" ELSE "false"
      [] self.kind = "Simple" ->
             IF self.ftype \in {"Equal", "Approx"}
             THEN IF \E i \in 1..Len(Entry_get(entry, self.attr)) :
                        to_ascii_lowercase(Entry_get(entry, self.attr)[i]) = self.value
                  THEN "true" ELSE "false"
             ELSE "todo"
      [] self.kind = "Substring" ->
             IF \E i \in 1..Len(Entry_get(entry, self.attr)) :
                    is_match(self.value, Entry_get(entry, self.attr)[i])
             THEN "true" ELSE "false"

(***************************************************************************)
(* filter/parser.rs                                                        *)
(***************************************************************************)
\* attribute_value: fold_many0 over \HH escapes and the characters other than
\* NUL ( ) * ESC, from the bytes v folded so far; the bytes are kept as
\* written. The result is an IResult: ok, the rest of the input, the output.
RECURSIVE attribute_value(_, _)
attribute_value(text_in, v) ==
    LET IsHex(c) ==
            DIGIT(c) \/ InRange(c, Ord("a"), Ord("f")) \/ InRange(c, Ord("A"), Ord("F"))
        hex_digit_value(c) ==
            IF DIGIT(c) THEN c - Ord("0")
            ELSE IF InRange(c, Ord("a"), Ord("f")) THEN c - Ord("a") + 10
            ELSE c - Ord("A") + 10
    IN  IF Len(text_in) >= 3 /\ text_in[1] = Ord("\\") /\ IsHex(text_in[2]) /\ IsHex(text_in[3])
        THEN attribute_value(
                 SubSeq(text_in, 4, Len(text_in)),
                 Append(v, (hex_digit_value(text_in[2]) * 16 + hex_digit_value(text_in[3])) % 256))
        ELSE IF text_in = <<>> \/ text_in[1] \in {0, Ord("("), Ord(")"), Ord("*"), 27}
        THEN [ok |-> TRUE, rest |-> text_in, out |-> v]
        ELSE attribute_value(Tail(text_in), Append(v, text_in[1]))

\* filter: alt((simple_filter, present_filter, not_filter, and_filter,
\* or_filter)). Ok and Err are the IResults, Tag is tag(..), Closed is char(')')
\* after a parser that gave r, Many1 is many1(filter) from the filters acc
\* parsed so far.
RECURSIVE filter(_)
filter(text_in) ==
    LET Ok(rest, out) == [ok |-> TRUE, rest |-> rest, out |-> out]
        Err == [ok |-> FALSE, rest |-> text_in, out |-> <<>>]
        Tag(i, t) == Len(i) >= Len(t) /\ SubSeq(i, 1, Len(t)) = t
        Drop(i, n) == SubSeq(i, n + 1, Len(i))
        Closed(r, out) ==
            IF r.ok /\ Tag(r.rest, B(<<")">>)) THEN Ok(Tail(r.rest), out) ELSE Err
        attribute_type(i) ==
            IF i = <<>> \/ ~ALPHA(i[1]) THEN Err
            ELSE Ok(Drop(i, Min({k \in 1..Len(i) :
                                    k = Len(i) \/ ~(ALPHA(i[k + 1]) \/ DIGIT(i[k + 1])
                                                    \/ i[k + 1] = Ord("-"))})),
                    to_ascii_lowercase(
                        SubSeq(i, 1, Min({k \in 1..Len(i) :
                                    k = Len(i) \/ ~(ALPHA(i[k + 1]) \/ DIGIT(i[k + 1])
                                                    \/ i[k + 1] = Ord("-"))}))))
        filter_type(i) ==
            CASE Tag(i, B(<<"=">>)) -> Ok(Drop(i, 1), "Equal")
              [] Tag(i, B(<<"~", "=">>)) -> Ok(Drop(i, 2), "Approx")
              [] Tag(i, B(<<">", "=">>)) -> Ok(Drop(i, 2), "GreaterOrEqual")
              [] Tag(i, B(<<"<", "=">>)) -> Ok(Drop(i, 2), "LessOrEqual")
              [] OTHER -> Err
        SimpleRest(atype, ftype) ==
            IF ~ftype.ok THEN Err
            ELSE Closed(attribute_value(ftype.rest, <<>>),
                        Filter("Simple", atype.out, ftype.out,
                               attribute_value(ftype.rest, <<>>).out, <<>>))
        simple_filter ==
            IF ~Tag(text_in, B(<<"(">>)) \/ ~attribute_type(Tail(text_in)).ok THEN Err
            ELSE SimpleRest(attribute_type(Tail(text_in)),
                            filter_type(attribute_type(Tail(text_in)).rest))
        present_filter ==
            IF ~Tag(text_in, B(<<"(">>)) \/ ~attribute_type(Tail(text_in)).ok THEN Err
            ELSE IF Tag(attribute_type(Tail(text_in)).rest, B(<<"=", "*", ")">>))
            THEN Ok(Drop(attribute_type(Tail(text_in)).rest, 3),
                    Filter("Present", attribute_type(Tail(text_in)).out, "", <<>>, <<>>))
            ELSE Err
        RECURSIVE Many1(_, _)
        Many1(i, acc) ==
            IF filter(i).ok THEN Many1(filter(i).rest, Append(acc, filter(i).out))
            ELSE IF acc = <<>> THEN Err ELSE Ok(i, acc)
    IN  IF simple_filter.ok THEN simple_filter
        ELSE IF present_filter.ok THEN present_filter
        ELSE IF Tag(text_in, B(<<"(", "!">>))
        THEN Closed(filter(Drop(text_in, 2)),
                    Filter("Not", <<>>, "", <<>>, <<filter(Drop(text_in, 2)).out>>))
        ELSE IF Tag(text_in, B(<<"(", "&">>))
        THEN Closed(Many1(Drop(text_in, 2), <<>>),
                    Filter("And", <<>>, "", <<>>, Many1(Drop(text_in, 2), <<>>).out))
        ELSE IF Tag(text_in, B(<<"(", "|">>))
        THEN Closed(Many1(Drop(text_in, 2), <<>>),
                    Filter("Or", <<>>, "", <<>>, Many1(Drop(text_in, 2), <<>>).out))
        ELSE Err

\* Filter::parse: the filter, and nothing but white space after it
Filter_parse(s) ==
    IF filter(s).ok /\ \A i \in 1..Len(filter(s).rest) :
                           filter(s).rest[i] \in {9, 10, 11, 12, 13, 32}
    THEN [ok |-> TRUE, out |-> filter(s).out]
    ELSE [ok |-> FALSE, out |-> <<>>]

(***************************************************************************)
(* bin/lfilter.rs                                                          *)
(***************************************************************************)
\* parse_arguments: the filter of the FILTER argument, by parser::filter, and
\* nothing but white space after it
lfilter_parse_arguments(FILTER) ==
    IF filter(FILTER).ok /\ \A i \in 1..Len(filter(FILTER).rest) :
                                filter(FILTER).rest[i] \in {9, 10, 11, 12, 13, 32}
    THEN [ok |-> TRUE, out |-> filter(FILTER).out]
    ELSE [ok |-> FALSE, out |-> <<>>]

\* is_match(entry, filter) of lfilter: the values are compared as they are
RECURSIVE lfilter_is_match(_, _)
lfilter_is_match(entry, f) ==
    CASE f.kind = "And" ->
             \A i \in 1..Len(f.filters) : lfilter_is_match(entry, f.filters[i])
      [] f.kind = "Or" ->
             \E i \in 1..Len(f.filters) : lfilter_is_match(entry, f.filters[i])
      [] f.kind = "Not" -> ~lfilter_is_match(entry, f.filters[1])
      [] f.kind = "Present" -> Len(Entry_get(entry, f.attr)) # 0
      [] f.kind = "Simple" ->
             /\ f.ftype = "Equal"
             /\ \E i \in 1..Len(Entry_get(entry, f.attr)) :
                    Entry_get(entry, f.attr)[i] = f.value

\* LFilter::write_entry, is_match(entry, &self.filter) being is: with an OUTPUT
\* the entries that match are kept for later and the others go to standard
\* output; without one the entries that match go to standard output
LFilter_write_entry(self, is, entry) ==
    IF self.OUTPUT
    THEN IF is THEN [self EXCEPT !.matched_entries = Append(@, entry)]
         ELSE [self EXCEPT !.unmatched_output = Append(@, entry)]
    ELSE IF is THEN [self EXCEPT !.matched_output = Append(@, entry)]
    ELSE self

\* get_result: arguments is the result of parse_arguments, is the result of
\* is_match on the entry that the chain hands over; the error of copy or flush
\* ends the run before the kept entries are written
get_result(self, arguments, is, entry) ==
    IF ~arguments.ok THEN [self EXCEPT !.eprintln = "lfilter: failed to parse filter"]
    ELSE IF self.copy = "Err"
    THEN [LFilter_write_entry(self, is[1], entry) EXCEPT !.eprintln = "lfilter: {}"]
    ELSE [LFilter_write_entry(self, is[1], entry) EXCEPT
              !.matched_output = @ \o LFilter_write_entry(self, is[1], entry).matched_entries]

\* main: exit(1) after an error, else the end of main
exit_status(self) ==
    [self EXCEPT !.exit = IF self.eprintln # "" THEN <<1>> ELSE <<0>>]

(***************************************************************************)
(* The search-filter evaluator under test                                  *)
(***************************************************************************)
\* the bytes of the globs and of the values they are matched against
GlobBytes == {Ord("a"), Ord("A"), Ord("b")}

\* the glob *SrCr**T*, its literals as written
S4Glob ==
    <<Wildcard, Literal(Ord("S")), Literal(Ord("r")), Literal(Ord("C")), Literal(Ord("r")),
      Wildcard, Wildcard, Literal(Ord("T")), Wildcard>>

DirXMLsrcRoot == B(<<"D", "i", "r", "X", "M", "L", "-", "s", "r", "c", "R", "o", "o", "t">>)

Globs == SeqsUpTo({Wildcard} \cup {Literal(b) : b \in GlobBytes}, MaxGlobLen) \cup {S4Glob}

GlobValues ==
    SeqsUpTo(GlobBytes, MaxValueLen)
    \cup {DirXMLsrcRoot, B(<<"s", "r", "c", "r", "o", "o", "t">>)}

\* the values of cn, in the filters and in the entries
CaseValues ==
    {B(<<"f", "o", "o">>), B(<<"F", "O", "O">>), B(<<"F", "o", "o">>), B(<<"b", "a", "r">>)}

\* the filter (&(cn=FOO)(!(sn=*)))
S6Filter ==
    B(<<"(", "&", "(", "c", "n", "=", "F", "O", "O", ")",
        "(", "!", "(", "s", "n", "=", "*", ")", ")", ")">>)

FilterTexts ==
    {B(<<"(", "c", "n">>) \o op \o v \o B(<<")">>) :
         op \in {B(<<"=">>), B(<<"~", "=">>)}, v \in CaseValues}
    \cup {S6Filter,
          B(<<"(", "|", "(", "s", "n", "=", "*", ")", "(", "C", "N", "=",
              "\\", "4", "6", "o", "o", ")", ")", " ">>),
          B(<<"(", "c", "n", ">", "=", "f", "o", "o", ")">>),
          B(<<"(", "c", "n", "=", "f", "*", ")">>),
          B(<<"(", "c", "n", "=", "f", "o", "o", ")", "x">>)}

\* entries with the dn cn=foo, up to MaxValues values of cn, with or without sn
FilterEntries ==
    {MkEntry(<<B(<<"d", "n">>), B(<<"c", "n">>), B(<<"s", "n">>)>>,
             B(<<"c", "n", "=", "f", "o", "o">>), cns, sns) :
         cns \in SeqsUpTo(CaseValues, MaxValues), sns \in {<<>>, <<B(<<"x">>)>>}}

InitFilter ==
    /\ StageIdle
    /\ CodecIdle
    /\ LexerIdle
    /\ CompareIdle
    /\ ProductIdle
    /\ JsonIdle
    /\ SkipperIdle
    /\ FrontIdle
    /\ EscapeIdle
    /\ parsed = <<>>
    /\ matched = <<>>
    /\ \/ /\ pattern \in Globs
          /\ subject \in GlobValues
          /\ ftext = <<>>
          /\ fentry = <<>>
          /\ lfilter = <<>>
          /\ fpc = "glob"
       \/ /\ pattern = <<>>
          /\ subject = <<>>
          /\ ftext \in FilterTexts
          /\ fentry \in FilterEntries
          /\ lfilter = <<>>
          /\ fpc = "parse"
       \/ /\ pattern = <<>>
          /\ subject = <<>>
          /\ ftext \in FilterTexts
          /\ fentry \in FilterEntries
          /\ \E output \in BOOLEAN, copy \in {"Ok", "Err"} :
                 lfilter = [OUTPUT |-> output, copy |-> copy,
                            matched_output |-> <<>>, unmatched_output |-> <<>>,
                            matched_entries |-> <<>>, eprintln |-> "", exit |-> <<>>]
          /\ fpc = "lfilter"

\* is_match(glob, value) on the glob and the value of the run
glob_match ==
    /\ fpc = "glob"
    /\ matched' = <<is_match(pattern, subject)>>
    /\ fpc' = "globbed"
    /\ UNCHANGED <<pattern, subject, ftext, fentry, parsed, lfilter>>
    /\ UNCHANGED <<stageVars, codecVars, lexerVars, compareVars, productVars, jsonVars, skipperVars, frontVars, escapeVars>>

\* Filter::parse on the text of the run
parse ==
    /\ fpc = "parse"
    /\ parsed' = Filter_parse(ftext)
    /\ fpc' = IF parsed'.ok THEN "match" ELSE "failed"
    /\ UNCHANGED <<pattern, subject, ftext, fentry, matched, lfilter>>
    /\ UNCHANGED <<stageVars, codecVars, lexerVars, compareVars, productVars, jsonVars, skipperVars, frontVars, escapeVars>>

\* Filter::is_match of the parsed filter on the entry of the run
evaluate ==
    /\ fpc = "match"
    /\ matched' = <<Filter_is_match(parsed.out, fentry)>>
    /\ fpc' = IF matched'[1] = "todo" THEN "panicked" ELSE "done"
    /\ UNCHANGED <<pattern, subject, ftext, fentry, parsed, lfilter>>
    /\ UNCHANGED <<stageVars, codecVars, lexerVars, compareVars, productVars, jsonVars, skipperVars, frontVars, escapeVars>>

\* bin/lfilter.rs, main: the FILTER argument ftext, with or without an OUTPUT
\* argument; standard input delivers the entry fentry and then ends well or
\* with an error (of the Lexer, or of reading)
lfilter_main ==
    /\ fpc = "lfilter"
    /\ parsed' = lfilter_parse_arguments(ftext)
    /\ matched' = IF parsed'.ok THEN <<lfilter_is_match(fentry, parsed'.out)>> ELSE <<>>
    /\ lfilter' = exit_status(get_result(lfilter, parsed', matched', fentry))
    /\ fpc' = "exited"
    /\ UNCHANGED <<pattern, subject, ftext, fentry>>
    /\ UNCHANGED <<stageVars, codecVars, lexerVars, compareVars, productVars, jsonVars, skipperVars, frontVars, escapeVars>>

NextFilter ==
    \/ glob_match
    \/ parse
    \/ evaluate
    \/ lfilter_main

SpecFilter == InitFilter /\ [][NextFilter]_vars

(***************************************************************************)
(* Properties of the search-filter evaluator                               *)
(***************************************************************************)
\* the two entries of the filter-match scenario: cn=foo without and with sn
S6Entry(sns) ==
    MkEntry(<<B(<<"d", "n">>), B(<<"c", "n">>), B(<<"s", "n">>)>>,
            B(<<"c", "n", "=", "f", "o", "o">>), <<B(<<"f", "o", "o">>)>>, sns)

\* some value of the filter's attribute equals the filter value, both lowercased
EqualLowercased ==
    \E i \in 1..Len(Entry_get(fentry, parsed.out.attr)) :
        to_ascii_lowercase(Entry_get(fentry, parsed.out.attr)[i])
            = to_ascii_lowercase(parsed.out.value)

\* C11: a Simple filter with = or ~= matches an entry exactly when some value
\* of the attribute equals the filter value once both are ASCII-lowercased,
\* and the filter that Filter::parse makes of (&(cn=FOO)(!(sn=*))) matches
\* {dn: cn=foo, cn: foo} and does not match {dn: cn=foo, cn: foo, sn: x}.
SimpleFilterCaseInsensitive ==
    /\ (fpc = "done" /\ parsed.out.kind = "Simple")
           => (matched[1] = "true" <=> EqualLowercased)
    /\ (fpc \in {"done", "failed", "panicked"} /\ ftext = S6Filter)
           => /\ fpc = "done"
              /\ fentry = S6Entry(<<>>) => matched[1] = "true"
              /\ fentry = S6Entry(<<B(<<"x">>)>>) => matched[1] = "false"

\* ordinary glob semantics: a wildcard matches any run of bytes, the empty one
\* included, a literal matches its byte in either ASCII case, and the whole
\* value has to be matched
RECURSIVE GlobMatches(_, _)
GlobMatches(glob, v) ==
    IF glob = <<>> THEN v = <<>>
    ELSE IF Head(glob).kind = "Wildcard"
    THEN GlobMatches(Tail(glob), v) \/ (v # <<>> /\ GlobMatches(glob, Tail(v)))
    ELSE /\ v # <<>>
         /\ to_ascii_lowercase(<<Head(v)>>) = to_ascii_lowercase(<<Head(glob).byte>>)
         /\ GlobMatches(Tail(glob), Tail(v))

\* C12: for every glob and every value, is_match is true exactly when the
\* whole value matches the glob under ordinary glob semantics with ASCII
\* case-insensitive literals.
GlobSemantics ==
    fpc = "globbed" => (matched[1] <=> GlobMatches(pattern, subject))

\* C13: the glob *SrCr**T*, its literals as written, matches DirXML-srcRoot
\* and does not match srcroot.
S4GlobMatch ==
    (fpc = "globbed" /\ pattern = S4Glob)
        => /\ subject = DirXMLsrcRoot => matched[1]
           /\ subject = B(<<"s", "r", "c", "r", "o", "o", "t">>) => ~matched[1]

\* the glob with one more Wildcard, before the part at index i from 0
WithWildcard(glob, i) ==
    SubSeq(glob, 1, i) \o <<Wildcard>> \o SubSeq(glob, i + 1, Len(glob))

\* C14: if a glob matches a value, the glob with one Wildcard inserted at any
\* position matches that value too.
GlobMonotonicity ==
    (fpc = "globbed" /\ matched[1])
        => \A i \in 0..Len(pattern) : is_match(WithWildcard(pattern, i), subject)

(***************************************************************************)
(* Properties of write_attrval                                             *)
(***************************************************************************)
\* the values written for an attribute, in the order written
WrittenValues(attr) ==
    LET same == SelectSeq(written, LAMBDA p : to_ascii_lowercase(p.attr)
                                                  = to_ascii_lowercase(attr))
    IN  [i \in 1..Len(same) |-> same[i].value]

\* the same values the same number of times
SameBag(s, t) ==
    /\ Len(s) = Len(t)
    /\ \A i \in 1..Len(s) :
           Cardinality({j \in 1..Len(s) : s[j] = s[i]})
               = Cardinality({j \in 1..Len(t) : t[j] = s[i]})

\* C15: the lines that write_attrval writes for attribute values, fed through
\* Lexer and EntryTokenWriter and flushed, parse without error to one entry
\* that has, per lowercased attribute name, exactly the values written.
AttrvalRoundTrip ==
    (written # <<>> /\ lpc \in {"flushed", "failed"})
        => /\ lpc = "flushed"
           /\ Len(Writer.dest) = 1
           /\ \A k \in 1..Len(Writer.dest[1].attr2index) :
                  \E i \in 1..Len(written) :
                      to_ascii_lowercase(written[i].attr) = Writer.dest[1].attr2index[k]
           /\ \A i \in 1..Len(written) :
                  SameBag(Entry_get(Writer.dest[1], written[i].attr),
                          WrittenValues(written[i].attr))

(***************************************************************************)
(* Properties of the Lexer: names, end of file, errors, locations          *)
(***************************************************************************)
\* the name of an attribute line of NameLines
NameOf(line) == SubSeq(line, 1, Len(line) - 4)

\* ALPHA (ALPHA | DIGIT | '-' | '_')*
ValidName(name) ==
    /\ name # <<>>
    /\ ALPHA(name[1])
    /\ \A i \in 2..Len(name) :
           ALPHA(name[i]) \/ DIGIT(name[i]) \/ name[i] \in {Ord("-"), Ord("_")}

\* C16: the Lexer accepts an attribute name exactly when it matches
\* ALPHA (ALPHA | DIGIT | '-' | '_')*: the line of such a name yields an
\* AttributeType token with the name, loaded_class_count included; any other
\* name (a digit first, a ';' in it) is rejected with an error.
AttributeNameGrammar ==
    (source \in NameLines /\ lpc \in {"flushed", "failed"})
        => IF ValidName(NameOf(source))
           THEN /\ lpc = "flushed"
                /\ Tokens # <<>>
                /\ Tokens[1].kind = "AttributeType"
                /\ Tokens[1].segment = NameOf(source)
           ELSE /\ lpc = "failed"
                /\ lexer.err.msg # ""
                /\ Tokens = <<>>

\* a step that is the loc_flush of the run: everything has been written
FlushStep == lpc = "writing" /\ Delivered = Len(source) /\ lpc' # "writing"

\* the tokens the receiver is handed in a step
NewTokens == SubSeq(Tokens', Len(Tokens) + 1, Len(Tokens'))

Kinds(tokens) == [i \in 1..Len(tokens) |-> tokens[i].kind]

\* C17: loc_flush at the start of a line or in a comment line emits exactly
\* one entry-finish token; inside a value (after the colon, in leading white
\* space, in a safe-string or a base64 value) it emits the pending value
\* segment, ValueFinish and the entry-finish token, in that order; inside an
\* attribute-type name it emits no token and returns an error.
FlushAtEndOfFile ==
    [][FlushStep =>
        CASE lexer.state \in {"LineStart", "CommentLine"} ->
                 /\ lpc' = "flushed"
                 /\ Kinds(NewTokens) = <<"EntryFinish">>
          [] lexer.state = "AttributeType" ->
                 /\ lpc' = "failed"
                 /\ lexer'.err.msg # ""
                 /\ NewTokens = <<>>
          [] OTHER ->
                 /\ lpc' = "flushed"
                 /\ Kinds(NewTokens) =
                        <<IF lexer.state = "Base64Value" THEN "ValueBase64" ELSE "ValueText",
                          "ValueFinish", "EntryFinish">>
                 /\ NewTokens[1].segment = lexer.buf
    ]_vars

\* a flush inside a base64 value and one inside an attribute-type name
FlushWitness ==
    /\ lpc = "flushed"
    /\ lexer.state = "Base64Value"
    /\ Len(Tokens) >= 3
    /\ Kinds(SubSeq(Tokens, Len(Tokens) - 2, Len(Tokens)))
           = <<"ValueBase64", "ValueFinish", "EntryFinish">>

\* the bytes that the claim of C18 names for each state of the Lexer: any byte
\* from 0x80 on, and a byte outside the class of the state
OutsideClass(state, c) ==
    \/ c >= 128
    \/ state = "LineStart" /\ c \notin {LF, Ord("#")} /\ ~ALPHA(c)
    \/ state = "AttributeType"
           /\ ~(ALPHA(c) \/ DIGIT(c)) /\ c \notin {Ord("-"), Ord(":")}
    \/ state = "ValueColon"
           /\ ~SAFE_INIT_CHAR(c) /\ c \notin {SPACE, Ord(":"), LF}
    \/ state = "SafeStringValue" /\ ~SAFE_CHAR(c) /\ c # LF
    \/ state = "Base64Value" /\ ~BASE64_CHAR(c) /\ c # LF
    \/ state = "WhitespaceBefore(SafeStringValue)" /\ c # SPACE /\ ~SAFE_INIT_CHAR(c)
    \/ state = "WhitespaceBefore(Base64Value)" /\ c # SPACE /\ ~BASE64_CHAR(c)

\* the outcome of a loc_write that meets the byte c at the location at, when
\* the bytes of the call before c have left the Lexer as before
RejectedAt(before, c, at) ==
    (before.err = NoError /\ OutsideClass(before.state, c)) =>
        /\ lpc' = "failed"
        /\ lexer'.err.msg # ""
        /\ lexer'.err.line = at.line
        /\ lexer'.err.column = at.column
        /\ Tokens' = before.token_receiver.tokens

\* C18: a byte from 0x80 on in any state, a digit or other non-ALPHA byte at
\* the start of a line, ';' in an attribute name, '<' after the colon and any
\* byte outside the class of the current state make loc_write return an error
\* that carries the line and column of that byte in the input, and the
\* receiver gets no token for that byte or a later byte of the call.
LexerErrorsLocated ==
    [][\A n \in 1..(Len(source) - Delivered) :
          (lpc = "writing"
             /\ lexer' = Lexer_loc_write(lexer, lloc,
                                         SubSeq(source, Delivered + 1, Delivered + n)))
          => \A j \in 1..n :
                RejectedAt(LexLoop(lexer, lloc,
                                   SubSeq(source, Delivered + 1, Delivered + j - 1)),
                           source[Delivered + j],
                           LocAt(source, Delivered + j - 1))
    ]_vars

\* a non-ASCII byte at the start of the second line, after the three tokens
\* of the first line
LexerErrorWitness ==
    /\ lpc = "failed"
    /\ lexer.err.msg = "non-ASCII character"
    /\ lexer.err.line = 2
    /\ lexer.err.column = 1
    /\ Len(Tokens) = 3

\* the token t names the place of its segment in the source
NamesItsSegment(t) ==
    /\ t.loc = LocAt(source, t.loc.offset)
    /\ t.loc.offset + Len(t.segment) <= Len(source)
    /\ SubSeq(source, t.loc.offset + 1, t.loc.offset + Len(t.segment)) = t.segment

\* C19: every token with a non-empty segment carries the location, in the
\* input, of the first byte of its segment: the segment stands in the input at
\* the offset of loc, loc is the line and column of that offset, and the
\* segments of successive tokens follow each other in the input. This covers
\* attribute types, values after spaces and the value tokens of a value that
\* arrives over several loc_write calls.
TokenLocations ==
    /\ \A i \in 1..Len(Tokens) :
          Tokens[i].segment # <<>> => NamesItsSegment(Tokens[i])
    /\ \A i, j \in 1..Len(Tokens) :
          (i < j /\ Tokens[i].segment # <<>> /\ Tokens[j].segment # <<>>)
          => Tokens[i].loc.offset + Len(Tokens[i].segment) <= Tokens[j].loc.offset

(***************************************************************************)
(* Properties of DecodeWriter::write: the illegal bytes                    *)
(***************************************************************************)
\* the DecodeWriter of the current call after the first k bytes of the call
DecodedSoFar(k) ==
    DecodeWriter_write(DecodeWriter_new_with_state(decoder.inner, b64state),
                       SubSeq(text, taken + 1, taken + k))

\* A-Z a-z 0-9 + /
Base64Digit(c) ==
    c \in (65..90) \cup (97..122) \cup (48..57) \cup {Ord("+"), Ord("/")}

\* the bytes that the claim of C20 calls not legal in a phase
IllegalIn(ph, c) ==
    \/ ~Base64Digit(c) /\ c # Ord("=")
    \/ c = Ord("=") /\ ph \in {"B0", "B6"}
    \/ ph = "P0"
    \/ ph = "P1" /\ Base64Digit(c)

UpperHexDigits ==
    B(<<"0", "1", "2", "3", "4", "5", "6", "7", "8", "9", "A", "B", "C", "D", "E", "F">>)

\* the outcome of a write that meets the illegal byte c after the bytes
\* before it have left the writer as before
InvalidDataAt(before, c) ==
    (before.err = None /\ IllegalIn(before.state, c)) =>
        /\ phase' = "failed"
        /\ decoder'.kind = "InvalidData"
        /\ decoder'.msg =
               B(<<"u", "n", "e", "x", "p", "e", "c", "t", "e", "d", " ",
                   "c", "h", "a", "r", "a", "c", "t", "e", "r", " ", "0", "x">>)
                   \o <<UpperHexDigits[(c \div 16) + 1], UpperHexDigits[(c % 16) + 1]>>
        /\ decoder'.inner = before.inner

\* an accepted '=' is one of B4 -> P1, B2 -> P0 and P1 -> P0
PaddingStep(before, c, then) ==
    (before.err = None /\ c = Ord("=") /\ then.err = None) =>
        <<before.state, then.state>> \in {<<"B4", "P1">>, <<"B2", "P0">>, <<"P1", "P0">>}

\* C20: DecodeWriter::write fails, with ErrorKind::InvalidData and the message
\* 'unexpected character 0xHH' in two upper-case hexadecimal digits, exactly
\* when it meets a byte that is not legal in the current phase: a byte outside
\* A-Z a-z 0-9 + / = in any phase, '=' in B0 or B6, any byte in P0, a digit in
\* P1; '=' is accepted only as B4 -> P1, B2 -> P0 and P1 -> P0; the bytes
\* decoded before the offending byte have been written downstream.
DecodeWriterErrors ==
    [][\A n \in 1..(Len(text) - taken) :
          (phase = "decode" /\ pieces' = Append(pieces, n))
          => /\ (decoder'.err # None) <=>
                    \E j \in 1..n : /\ DecodedSoFar(j - 1).err = None
                                    /\ IllegalIn(DecodedSoFar(j - 1).state, text[taken + j])
             /\ \A j \in 1..n :
                    /\ InvalidDataAt(DecodedSoFar(j - 1), text[taken + j])
                    /\ PaddingStep(DecodedSoFar(j - 1), text[taken + j], DecodedSoFar(j))
    ]_vars

\* QQ and CR in one write: the octet of QQ is downstream and the write has
\* failed on 0x0D
DecodeWriterErrorWitness ==
    /\ phase = "failed"
    /\ text = B(<<"Q", "Q">>) \o <<CR>>
    /\ pieces = <<3>>
    /\ decoder.kind = "InvalidData"
    /\ decoder.msg = B(<<"u", "n", "e", "x", "p", "e", "c", "t", "e", "d", " ",
                         "c", "h", "a", "r", "a", "c", "t", "e", "r", " ",
                         "0", "x", "0", "D">>)
    /\ decoder.inner = <<65>>

(***************************************************************************)
(* Properties of DecodeWriter::flush and of the EncodeWriter               *)
(***************************************************************************)
\* t is made of groups of four: digits, the last group ending in at most two '='
CompleteGroups(t) ==
    /\ Len(t) % 4 = 0
    /\ \E pad \in 0..2 :
          /\ pad <= Len(t)
          /\ \A i \in 1..Len(t) :
                IF i > Len(t) - pad THEN t[i] = Ord("=") ELSE Base64Digit(t[i])

\* C21: DecodeWriter::flush returns Ok exactly in the phases B0 and P0, that
\* is exactly when the text written so far is made of complete groups of four
\* with correct padding; in B6, B4, B2 and P1 it returns an error; it changes
\* neither the state of the decoder nor what is downstream.
DecodeFlush ==
    [][(phase = "decode" /\ phase' = "done") =>
          /\ flushed' \in {"Ok", "Err"}
          /\ (flushed' = "Ok") <=> (b64state.state \in {"B0", "P0"})
          /\ (flushed' = "Err") <=> (b64state.state \in {"B6", "B4", "B2", "P1"})
          /\ (flushed' = "Ok") <=> CompleteGroups(text)
          /\ decoder' = decoder
          /\ b64state' = b64state
    ]_vars

\* a flush after QQ= (phase P1) and its error
DecodeFlushWitness ==
    /\ phase = "done"
    /\ text = B(<<"Q", "Q", "=">>)
    /\ b64state.state = "P1"
    /\ flushed = "Err"

\* the base64 alphabet of RFC 4648, table 1
Alphabet64 ==
    B(<<"A", "B", "C", "D", "E", "F", "G", "H", "I", "J", "K", "L", "M",
        "N", "O", "P", "Q", "R", "S", "T", "U", "V", "W", "X", "Y", "Z",
        "a", "b", "c", "d", "e", "f", "g", "h", "i", "j", "k", "l", "m",
        "n", "o", "p", "q", "r", "s", "t", "u", "v", "w", "x", "y", "z",
        "0", "1", "2", "3", "4", "5", "6", "7", "8", "9", "+", "/">>)

\* the standard encoding of p: 24 bits per group of three bytes, six bits per
\* character; a last group of one or two bytes is filled with zero bits and
\* padded with '='
RECURSIVE Rfc4648(_)
Rfc4648(p) ==
    IF p = <<>> THEN <<>>
    ELSE IF Len(p) = 1
    THEN <<Alphabet64[((p[1] * 16) \div 64) + 1], Alphabet64[((p[1] * 16) % 64) + 1],
           Ord("="), Ord("=")>>
    ELSE IF Len(p) = 2
    THEN <<Alphabet64[(((p[1] * 256 + p[2]) * 4) \div 4096) + 1],
           Alphabet64[((((p[1] * 256 + p[2]) * 4) \div 64) % 64) + 1],
           Alphabet64[(((p[1] * 256 + p[2]) * 4) % 64) + 1],
           Ord("=")>>
    ELSE <<Alphabet64[((p[1] * 65536 + p[2] * 256 + p[3]) \div 262144) + 1],
           Alphabet64[(((p[1] * 65536 + p[2] * 256 + p[3]) \div 4096) % 64) + 1],
           Alphabet64[(((p[1] * 65536 + p[2] * 256 + p[3]) \div 64) % 64) + 1],
           Alphabet64[((p[1] * 65536 + p[2] * 256 + p[3]) % 64) + 1]>>
         \o Rfc4648(SubSeq(p, 4, Len(p)))

\* the number of '=' that t ends with
RECURSIVE Padding(_)
Padding(t) ==
    IF t = <<>> \/ t[Len(t)] # Ord("=") THEN 0 ELSE 1 + Padding(SubSeq(t, 1, Len(t) - 1))

\* C22: the text of an EncodeWriter after the writes of a byte string, in any
\* pieces, and one flush is the standard base64 encoding of the byte string:
\* 4 * ceil(n / 3) characters, digits of A-Z a-z 0-9 + / and then two '=' when
\* n mod 3 = 1, one when n mod 3 = 2, none when n mod 3 = 0; abcd gives
\* YWJjZA==, 12345678 gives MTIzNDU2Nzg=.
StandardEncoding ==
    (mode = "roundtrip" /\ phase # "encode") =>
        /\ text = Rfc4648(plain)
        /\ Len(text) = 4 * ((Len(plain) + 2) \div 3)
        /\ Padding(text) = (CASE Len(plain) % 3 = 1 -> 2
                              [] Len(plain) % 3 = 2 -> 1
                              [] OTHER -> 0)
        /\ \A i \in 1..(Len(text) - Padding(text)) : Base64Digit(text[i])
        /\ plain = B(<<"a", "b", "c", "d">>)
               => text = B(<<"Y", "W", "J", "j", "Z", "A", "=", "=">>)
        /\ plain = B(<<"1", "2", "3", "4", "5", "6", "7", "8">>)
               => text = B(<<"M", "T", "I", "z", "N", "D", "U", "2", "N", "z", "g", "=">>)

\* 12345678 encoded, flushed and decoded back
StandardEncodingWitness ==
    /\ mode = "roundtrip"
    /\ phase = "done"
    /\ plain = B(<<"1", "2", "3", "4", "5", "6", "7", "8">>)
    /\ text = B(<<"M", "T", "I", "z", "N", "D", "U", "2", "N", "z", "g", "=">>)
    /\ decoder.inner = plain

(***************************************************************************)
(* Properties of the EntryTokenWriter: the entries and their groups        *)
(***************************************************************************)
VERSION == B(<<"v", "e", "r", "s", "i", "o", "n">>)

\* the ValueFinish token of the attribute line whose AttributeType token is j
ValueEnd(j) == Min({k \in (j + 1)..Len(Tokens) : Tokens[k].kind = "ValueFinish"})

RECURSIVE Joined(_, _)
Joined(lo, hi) == IF lo > hi THEN <<>> ELSE Tokens[lo].segment \o Joined(lo + 1, hi)

\* the value of the attribute line j: the segments of its value tokens,
\* decoded when they are base64
LineValue(j) ==
    IF Tokens[j + 1].kind = "ValueBase64"
    THEN DecodeWhole(Joined(j + 1, ValueEnd(j) - 1)).inner
    ELSE Joined(j + 1, ValueEnd(j) - 1)

\* the values that the lines of the group closed by token i give the
\* attribute a, in input order
GroupValues(i, a) ==
    LET lines == SelectSeq([k \in 1..(i - GroupStart(i)) |-> GroupStart(i) + k - 1],
                           LAMBDA j : /\ j \in EntryLines(i)
                                      /\ to_ascii_lowercase(Tokens[j].segment) = a)
    IN  [k \in 1..Len(lines) |-> LineValue(lines[k])]

\* the entry that the sink received while token i was handled
EntryAt(i) == Writer.dest[Sum(SubSeq(Calls, 1, i))]

\* the attributes an entry of the writer can have values for
Selectable(a) ==
    Writer.all_attributes \/ \E k \in 1..Len(FixedAttributes) : FixedAttributes[k] = a

\* the entry of the group closed by token i holds the values of the lines of
\* that group for every attribute that occurs in the tokens, and no others
HoldsOwnGroup(i) ==
    /\ \A j \in 1..Len(Tokens) :
          Tokens[j].kind = "AttributeType" =>
              Entry_get(EntryAt(i), Tokens[j].segment) =
                  IF Selectable(to_ascii_lowercase(Tokens[j].segment))
                  THEN GroupValues(i, to_ascii_lowercase(Tokens[j].segment))
                  ELSE <<>>
    /\ \A k \in 1..Len(EntryAt(i).attr2index) :
          EntryAt(i).attr2values[k] # <<>> =>
              \E j \in EntryLines(i) :
                  to_ascii_lowercase(Tokens[j].segment) = EntryAt(i).attr2index[k]

\* the group closed by token i begins with the version line of the input
AfterVersion(i) == GroupStart(i) = 1 /\ Tokens[1].kind = "AttributeType" /\ IsVersion(1)

\* C23: a version line that starts the input gives no entry, and the
\* attribute lines after it, with or without a blank line in between, form
\* the first entry; with ignore_entries_without_dn a group whose first
\* attribute is not dn gives no sink call and no value of any entry, and a
\* group whose first attribute is dn gives exactly one entry.
PreambleHandling ==
    \A i \in 1..Len(Tokens) :
        Tokens[i].kind = "EntryFinish" =>
            /\ Calls[i] \in {0, 1}
            /\ EntryLines(i) = {} => Calls[i] = 0
            /\ (EntryLines(i) # {} /\ AfterVersion(i) /\ ~Writer.ignore_entries_without_dn)
                   => (Calls[i] = 1 /\ HoldsOwnGroup(i))
            /\ (EntryLines(i) # {} /\ Writer.ignore_entries_without_dn)
                   => /\ Calls[i] = 1 <=> ~Skipped(i)
                      /\ Calls[i] = 1 => HoldsOwnGroup(i)

\* the writer after the first i tokens
RECURSIVE WriterAfter(_)
WriterAfter(i) == IF i = 0 THEN Writer0 ELSE write_token(WriterAfter(i - 1), Tokens[i])

\* C24: every entry handed to the sink holds exactly the values of the
\* attribute lines of its own group, in input order per attribute, and after
\* every entry-finish token all value lists and the value buffer are empty, in
\* all-attributes mode and with a fixed attribute list.
NoResidue ==
    \A i \in 1..Len(Tokens) :
        (Tokens[i].kind = "EntryFinish" /\ WriterAfter(i).err = NoError) =>
            /\ Calls[i] = 1 => HoldsOwnGroup(i)
            /\ \A k \in 1..Len(WriterAfter(i).attrvalues) :
                  WriterAfter(i).attrvalues[k] = <<>>
            /\ WriterAfter(i).valuebuf = <<>>

Uppercased(s) ==
    [k \in 1..Len(s) |-> IF s[k] >= Ord("a") /\ s[k] <= Ord("z") THEN s[k] - 32 ELSE s[k]]

\* the first line of the group closed by token i that names the attribute a
FirstLine(i, a) ==
    Min({j \in EntryLines(i) : to_ascii_lowercase(Tokens[j].segment) = a})

\* C25: Entry::get returns the same values for every letter case of the
\* name, and in all-attributes mode the name that Entry::attributes reports
\* for an attribute is the spelling of its first line within the same entry,
\* whatever an earlier entry of the stream spelled.
CasePolicy ==
    \A i \in 1..Len(Tokens) :
        (Tokens[i].kind = "EntryFinish" /\ Calls[i] = 1) =>
            /\ \A j \in 1..Len(Tokens) :
                  Tokens[j].kind = "AttributeType" =>
                      /\ Entry_get(EntryAt(i), Uppercased(Tokens[j].segment))
                             = Entry_get(EntryAt(i), Tokens[j].segment)
                      /\ Entry_get(EntryAt(i), to_ascii_lowercase(Tokens[j].segment))
                             = Entry_get(EntryAt(i), Tokens[j].segment)
            /\ Writer.all_attributes =>
                  \A k \in 1..Len(Entry_attributes(EntryAt(i))) :
                      Entry_attributes(EntryAt(i))[k].name =
                          Tokens[FirstLine(i, Entry_attributes(EntryAt(i))[k].lowercase)].segment

(***************************************************************************)
(* Properties of lcompare: the operations of a modify record, deletes      *)
(***************************************************************************)
\* the modify operations written for the entry new, in the order of stdout
RECURSIVE ModifiesOf(_, _)
ModifiesOf(new, recs) ==
    IF recs = <<>> THEN <<>>
    ELSE (IF /\ recs[1].changetype = "modify"
             /\ to_ascii_lowercase(recs[1].dn)
                    = to_ascii_lowercase(get_one_str(new, DN)[1])
          THEN recs[1].ops ELSE <<>>)
         \o ModifiesOf(new, Tail(recs))

\* type, attribute in lower case and values of the operations on the attribute a
OpsOn(a, ops) ==
    LET mine == SelectSeq(ops, LAMBDA op : to_ascii_lowercase(op.attr) = a)
    IN  [k \in 1..Len(mine) |->
            <<mine[k].typ, to_ascii_lowercase(mine[k].attr), mine[k].values>>]

\* the rule of C26 for the values ov and nv of the attribute a
DiffRule(a, ov, nv) ==
    IF Len(ov) = 1 /\ Len(nv) = 1 /\ ov[1] # nv[1]
    THEN << <<"Replace", a, nv>> >>
    ELSE (IF \A k \in 1..Len(ov) : \E m \in 1..Len(nv) : nv[m] = ov[k]
          THEN <<>>
          ELSE << <<"Delete", a,
                    SelectSeq(ov, LAMBDA v : \A m \in 1..Len(nv) : nv[m] # v)>> >>)
         \o
         (IF \A k \in 1..Len(nv) : \E m \in 1..Len(ov) : ov[m] = nv[k]
          THEN <<>>
          ELSE << <<"Add", a,
                    SelectSeq(nv, LAMBDA v : \A m \in 1..Len(ov) : ov[m] # v)>> >>)

\* the attribute a is compared, at once or deferred
Compared(a) ==
    \/ params.invert # (\E k \in 1..Len(params.attrs) : params.attrs[k] = a)
    \/ \E k \in 1..Len(params.defer_attrs) : params.defer_attrs[k] = a

\* the modify records written for the entry new, in the order of stdout
ModifyRecords(new) ==
    SelectSeq(stdout, LAMBDA r : /\ r.changetype = "modify"
                                 /\ to_ascii_lowercase(r.dn)
                                        = to_ascii_lowercase(get_one_str(new, DN)[1]))

\* the operations on the attribute a of each modify record of the entry are
\* those of the rule, or none, and those of the rule in one record at least
ObeysRule(new, a, rule) ==
    /\ \A r \in Range(ModifyRecords(new)) : OpsOn(a, r.ops) \in {<<>>, rule}
    /\ rule # <<>> => \E r \in Range(ModifyRecords(new)) : OpsOn(a, r.ops) = rule

\* C26: in the modify records of an entry,
\* for an attribute that old and new both have, one replace with the new
\* value when each has exactly one value and the two differ; otherwise a
\* delete of the old values that new lacks, if any, then an add of the new
\* values that old lacks, if any; nothing when the values are the same.
ModifyDiffRule ==
    (cpc = "done" /\ UniqueDns(old_file) /\ UniqueDns(new_file)) =>
        \A i \in 1..Len(old_file), j \in 1..Len(new_file) :
            Stored(old_file[i]).dn = Stored(new_file[j]).dn =>
                \A k \in 1..Len(new_file[j].attr2index) :
                    (/\ new_file[j].attr2index[k] # DN
                     /\ Compared(new_file[j].attr2index[k])
                     /\ new_file[j].attr2values[k] # <<>>
                     /\ Entry_get(old_file[i], new_file[j].attr2index[k]) # <<>>)
                    => ObeysRule(new_file[j], new_file[j].attr2index[k],
                                 DiffRule(new_file[j].attr2index[k],
                                          Entry_get(old_file[i], new_file[j].attr2index[k]),
                                          new_file[j].attr2values[k]))

\* old x = 1, 2 and new x = 1, 3: delete 2, then add 3
ModifyDiffWitness ==
    /\ cpc = "done"
    /\ Len(old_file) = 1 /\ Len(new_file) = 1
    /\ Entry_get(old_file[1], B(<<"x">>)) = <<B(<<"1">>), B(<<"2">>)>>
    /\ Entry_get(new_file[1], B(<<"x">>)) = <<B(<<"1">>), B(<<"3">>)>>
    /\ OpsOn(B(<<"x">>), ModifiesOf(new_file[1], stdout))
           = << <<"Delete", B(<<"x">>), <<B(<<"2">>)>> >>,
                <<"Add", B(<<"x">>), <<B(<<"3">>)>> >> >>

\* the key lcompare knows an entry by: its dn as a string, in lower case
KeyOf(entry) == to_lowercase(from_utf8_lossy(Entry_get(entry, DN)[1]))

DnKeys(file) == { KeyOf(file[i]) : i \in 1..Len(file) }

\* the entry of the file that the map holds for the key d: the last one
Held(file, d) ==
    file[CHOOSE i \in 1..Len(file) :
             KeyOf(file[i]) = d /\ \A j \in (i + 1)..Len(file) : KeyOf(file[j]) # d]

\* the records of stdout of one changetype for the key d
RecordsOf(changetype, d) ==
    SelectSeq(stdout, LAMBDA r : r.changetype = changetype /\ to_lowercase(r.dn) = d)

\* C27: without --force no delete record is written, whatever the inputs:
\* every entry that only old has is skipped with a message on stderr, and the
\* add and modify records are written all the same; with --force exactly one
\* delete record is written for every dn that only old has.
DeletesNeedForce ==
    cpc = "done" =>
        /\ \A d \in DnKeys(new_file) \ DnKeys(old_file) :
              Len(RecordsOf("add", d)) = 1
        /\ \A d \in DnKeys(new_file) \cap DnKeys(old_file) :
              /\ RecordsOf("modify", d) =
                     ModifyChangeRecord_new(<<Held(old_file, d)>>, Held(new_file, d),
                                            params.attrs, params.invert)
                     \o ModifyChangeRecord_new(<<Held(old_file, d)>>, Held(new_file, d),
                                               params.defer_attrs, FALSE)
              /\ RecordsOf("delete", d) = <<>>
        /\ \A d \in DnKeys(new_file) \ DnKeys(old_file) : RecordsOf("delete", d) = <<>>
        /\ \A d \in DnKeys(old_file) \ DnKeys(new_file) :
              IF params.force
              THEN Len(RecordsOf("delete", d)) = 1
              ELSE /\ RecordsOf("delete", d) = <<>>
                   /\ Len(SelectSeq(stderr, LAMBDA m : to_lowercase(m) = d)) = 1
        /\ ~params.force =>
              /\ \A k \in 1..Len(stdout) : stdout[k].changetype # "delete"
              /\ Len(stderr) = Cardinality(DnKeys(old_file) \ DnKeys(new_file))
        /\ params.force => stderr = <<>>

\* a run without --force that skipped a delete and wrote an add
DeletesNeedForceWitness ==
    /\ cpc = "done"
    /\ ~params.force
    /\ Len(stderr) = 1
    /\ \E k \in 1..Len(stdout) : stdout[k].changetype = "add"
    /\ DnKeys(old_file) \ DnKeys(new_file) # {}


(***************************************************************************)
(* cartesian.rs                                                            *)
(***************************************************************************)
\* a cartesian_product that looks for no empty list
cartesian_product_any(v) ==
    [emptied |-> v = <<>>, counters |-> [i \in 1..Len(v) |-> 0]]

\* cartesian_product(&vec); the reference to vec is left out
cartesian_product(v) ==
    [emptied |-> v = <<>> \/ \E i \in 1..Len(v) : v[i] = <<>>,
     counters |-> [i \in 1..Len(v) |-> 0]]

\* the loop "increment counters" of next, from the list i down to the first
RECURSIVE increment(_, _, _)
increment(self, v, i) ==
    IF i = 0 THEN self
    ELSE IF self.counters[i] + 1 # Len(v[i])
    THEN [self EXCEPT !.counters[i] = @ + 1]
    ELSE increment([self EXCEPT !.counters[i] = 0,
                                !.emptied = IF i = 1 THEN TRUE ELSE @], v, i - 1)

\* CartesianProduct::next: self afterwards and the item returned, <<>> for
\* None; indexing a list past its end panics
CartesianProduct_next(self, v) ==
    IF self.emptied THEN [self |-> self, item |-> <<>>, panic |-> FALSE]
    ELSE IF \E i \in 1..Len(v) : self.counters[i] >= Len(v[i])
    THEN [self |-> self, item |-> <<>>, panic |-> TRUE]
    ELSE [self |-> increment(self, v, Len(v)),
          item |-> <<[i \in 1..Len(v) |-> v[i][self.counters[i] + 1]]>>,
          panic |-> FALSE]

(***************************************************************************)
(* tsv.rs, csv.rs: the records of an entry                                 *)
(***************************************************************************)
TAB == 9
COMMA == 44
QUOTE == 34

\* csv_escape(dest, field): what it writes
csv_escape(field) ==
    LET RECURSIVE Doubled(_)
        Doubled(f) ==
            IF f = <<>> THEN <<>>
            ELSE IF Head(f) = QUOTE THEN <<QUOTE, QUOTE>> \o Doubled(Tail(f))
            ELSE <<Head(f)>> \o Doubled(Tail(f))
    IN  IF \E i \in 1..Len(field) : field[i] \in {COMMA, LF, CR, QUOTE}
        THEN <<QUOTE>> \o Doubled(field) \o <<QUOTE>>
        ELSE field

\* the body of "for record in cartesian_product(&attrvalues)": the values
\* with TAB between them and the record separator LF after them, or escaped,
\* with commas between them and CR LF after them
RECURSIVE write_record(_, _, _)
write_record(w, record, i) ==
    IF i > Len(record) THEN IF w = "tsv" THEN <<LF>> ELSE <<CR, LF>>
    ELSE (IF i = 1 THEN <<>> ELSE IF w = "tsv" THEN <<TAB>> ELSE <<COMMA>>)
         \o (IF w = "tsv" THEN record[i] ELSE csv_escape(record[i]))
         \o write_record(w, record, i + 1)

\* the values of the lists
Items == {B(<<"1">>), B(<<"2">>)}

\* the lists of test_a, test_b and test_c, and a value with a quote in it
ProductTests ==
    { <<<<B(<<"1">>), B(<<"2">>), B(<<"3">>)>>, <<B(<<"4">>), B(<<"5">>)>>>>,
      <<<<B(<<"1">>)>>, <<>>, <<B(<<"2">>)>>>>,
      <<<<B(<<"1">>), B(<<"2">>)>>, <<B(<<"3">>), B(<<"4">>)>>,
        <<B(<<"5">>), B(<<"6">>)>>>>,
      <<<<B(<<"1">>), <<QUOTE>>>>, <<B(<<"2">>)>>>> }

\* the attribute of the i-th attrspec: a, b, c, ...
Attribute(i) == <<LetterA + i - 1>>

InitProduct ==
    /\ StageIdle
    /\ CodecIdle
    /\ LexerIdle
    /\ CompareIdle
    /\ FilterIdle
    /\ JsonIdle
    /\ SkipperIdle
    /\ FrontIdle
    /\ EscapeIdle
    /\ record_writer \in {"tsv", "csv"}
    /\ attrvalues \in SeqsUpTo(SeqsUpTo(Items, MaxItems), MaxLists) \cup ProductTests
    /\ product = <<>>
    /\ results = <<>>
    /\ rows = <<>>
    /\ ppc = "entry"

\* write_entry up to its loop: the header of the first CSV entry, then
\* cartesian_product(&attrvalues)
write_records ==
    /\ ppc = "entry"
    /\ rows' = IF record_writer = "csv"
               THEN write_record("csv", [i \in 1..Len(attrvalues) |-> Attribute(i)], 1)
               ELSE <<>>
    /\ product' = cartesian_product(attrvalues)
    /\ ppc' = "records"
    /\ UNCHANGED <<record_writer, attrvalues, results>>
    /\ UNCHANGED <<stageVars, codecVars, lexerVars, compareVars, filterVars, jsonVars, skipperVars, frontVars, escapeVars>>

\* one turn of the loop of write_entry: next, and the record of its item, or
\* the end of the loop and of write_entry
for_record ==
    /\ ppc = "records"
    /\ product' = CartesianProduct_next(product, attrvalues).self
    /\ IF CartesianProduct_next(product, attrvalues).panic
       THEN /\ ppc' = "panicked"
            /\ UNCHANGED <<results, rows>>
       ELSE /\ results' = Append(results, CartesianProduct_next(product, attrvalues).item)
            /\ IF CartesianProduct_next(product, attrvalues).item = <<>>
               THEN /\ ppc' = "written"
                    /\ UNCHANGED rows
               ELSE /\ ppc' = "records"
                    /\ rows' = rows \o write_record(record_writer,
                                    CartesianProduct_next(product, attrvalues).item[1], 1)
    /\ UNCHANGED <<record_writer, attrvalues>>
    /\ UNCHANGED <<stageVars, codecVars, lexerVars, compareVars, filterVars, jsonVars, skipperVars, frontVars, escapeVars>>

\* a call of next on the iterator that has returned None
next_after ==
    /\ ppc = "written"
    /\ Len(results) < Len(SelectSeq(results, LAMBDA r : r # <<>>)) + 1 + MaxCallsAfter
    /\ product' = CartesianProduct_next(product, attrvalues).self
    /\ results' = Append(results, CartesianProduct_next(product, attrvalues).item)
    /\ UNCHANGED <<record_writer, attrvalues, rows, ppc>>
    /\ UNCHANGED <<stageVars, codecVars, lexerVars, compareVars, filterVars, jsonVars, skipperVars, frontVars, escapeVars>>

NextProduct ==
    \/ write_records
    \/ for_record
    \/ next_after

SpecProduct == InitProduct /\ [][NextProduct]_vars

(***************************************************************************)
(* json.rs                                                                 *)
(***************************************************************************)
BACKSLASH == 92
DEL == 127

\* char::encode_utf8 and str::as_bytes
encode_utf8(c) ==
    IF c < 128 THEN <<c>>
    ELSE IF c < 2048 THEN <<192 + (c \div 64), 128 + (c % 64)>>
    ELSE IF c < 65536
    THEN <<224 + (c \div 4096), 128 + ((c \div 64) % 64), 128 + (c % 64)>>
    ELSE <<240 + (c \div 262144), 128 + ((c \div 4096) % 64),
           128 + ((c \div 64) % 64), 128 + (c % 64)>>

RECURSIVE as_bytes(_)
as_bytes(str) == IF str = <<>> THEN <<>> ELSE encode_utf8(Head(str)) \o as_bytes(Tail(str))

\* char::encode_utf16: the code units of c
encode_utf16(c) ==
    IF c < 65536 THEN <<c>>
    ELSE <<55296 + ((c - 65536) \div 1024), 56320 + ((c - 65536) % 1024)>>

\* format!("{unit:04}"): the decimal digits of unit, padded with zeros to
\* four characters
RECURSIVE format_04(_, _)
format_04(unit, width) ==
    IF unit < 10 /\ width <= 1 THEN <<48 + unit>>
    ELSE format_04(unit \div 10, width - 1) \o <<48 + (unit % 10)>>

\* what the match on an escaped char c writes
json_escape(c) ==
    LET RECURSIVE units(_)
        units(u) ==
            IF u = <<>> THEN <<>>
            ELSE <<BACKSLASH, Ord("u")>> \o format_04(Head(u), 4) \o units(Tail(u))
    IN  IF c \in {BACKSLASH, QUOTE} THEN <<BACKSLASH, c>>
        ELSE IF c = CR THEN <<BACKSLASH, Ord("r")>>
        ELSE IF c = LF THEN <<BACKSLASH, Ord("n")>>
        ELSE IF c = TAB THEN <<BACKSLASH, Ord("t")>>
        ELSE units(encode_utf16(c))

\* the loop over s.char_indices() from the k-th char on, which is at byte i;
\* st holds written and the bytes w written so far
RECURSIVE json_chars(_, _, _, _)
json_chars(str, k, i, st) ==
    IF k > Len(str) THEN st
    ELSE IF str[k] >= 128 \/ str[k] < 32 \/ str[k] = DEL \/ str[k] \in {BACKSLASH, QUOTE}
    THEN json_chars(str, k + 1, i + Len(encode_utf8(str[k])),
             [written |-> (IF i > st.written THEN i ELSE st.written) + 1,
              w |-> st.w
                    \o (IF i > st.written
                        THEN SubSeq(as_bytes(str), st.written + 1, i) ELSE <<>>)
                    \o json_escape(str[k])])
    ELSE json_chars(str, k + 1, i + Len(encode_utf8(str[k])), st)

\* the rest of s, written after the loop
json_rest(str, st) ==
    IF st.written < Len(as_bytes(str))
    THEN st.w \o SubSeq(as_bytes(str), st.written + 1, Len(as_bytes(str)))
    ELSE st.w

\* write_json_string(w, s): the bytes written to w
write_json_string(str) ==
    json_rest(str, json_chars(str, 1, 0, [written |-> 0, w |-> <<QUOTE>>])) \o <<QUOTE>>

\* the chars of the strings: a, the quote, the backslash, LF, CR, TAB, NUL,
\* the control bytes 0x0B, 0x1F and DEL, U+00E9, U+20AC and U+1F600
JsonChars == {LetterA, QUOTE, BACKSLASH, LF, CR, TAB, 0, 11, 31, DEL, 233, 8364, 128512}

\* the strings of write_json_string_test_a, _b and _c
JsonTests ==
    { B(<<"f", "o", "o", "\n", "b", "a", "r">>),
      B(<<"\n">>),
      B(<<"f", "o", "o">>) \o <<TAB>> \o B(<<"b", "a", "r">>) \o <<0>>
          \o B(<<"b", "a", "z", "\r", "\n">>) }

InitJson ==
    /\ StageIdle
    /\ CodecIdle
    /\ LexerIdle
    /\ CompareIdle
    /\ FilterIdle
    /\ ProductIdle
    /\ SkipperIdle
    /\ FrontIdle
    /\ EscapeIdle
    /\ jstr \in SeqsUpTo(JsonChars, MaxChars) \cup JsonTests
    /\ jout = <<>>
    /\ jpc = "call"

\* write_json_string(&mut buf, s)
json_string ==
    /\ jpc = "call"
    /\ jout' = write_json_string(jstr)
    /\ jpc' = "returned"
    /\ UNCHANGED jstr
    /\ UNCHANGED <<stageVars, codecVars, lexerVars, compareVars, filterVars, productVars, skipperVars, frontVars, escapeVars>>

NextJson == json_string

SpecJson == InitJson /\ [][NextJson]_vars

(***************************************************************************)
(* bin/lget.rs, bin/ldif2tsv.rs                                            *)
(***************************************************************************)
\* lget.rs TokenReceiver::new and set_delimiter
TokenReceiver_new(attrtype, delimiter) ==
    [attrtype |-> attrtype, ismatch |-> TRUE, dest |-> <<>>, valuetype |-> "Text",
     b64state |-> DecodeStateDefault, delimiter |-> delimiter, panic |-> FALSE]

\* decoder.write(..).unwrap() into dest, and get_state
Unwrapped(self, dw, field) ==
    IF dw.err # None THEN [self EXCEPT !.panic = TRUE]
    ELSE [self EXCEPT ![field] = dw.inner, !.b64state = get_state(dw),
                      !.valuetype = "Base64"]

\* lget.rs TokenReceiver::receive_token
TokenReceiver_receive_token(self, token) ==
    IF self.panic THEN self
    ELSE IF token.kind = "AttributeType"
    THEN [self EXCEPT !.ismatch = to_ascii_lowercase(token.segment)
                                      = to_ascii_lowercase(self.attrtype)]
    ELSE IF token.kind = "ValueText"
    THEN IF self.ismatch
         THEN [self EXCEPT !.dest = @ \o token.segment, !.valuetype = "Text"]
         ELSE self
    ELSE IF token.kind = "ValueBase64"
    THEN IF self.ismatch
         THEN Unwrapped(self, DecodeWriter_write(
                  DecodeWriter_new_with_state(self.dest, self.b64state), token.segment),
                  "dest")
         ELSE self
    ELSE IF token.kind = "ValueFinish"
    THEN IF self.ismatch
         THEN [self EXCEPT !.b64state = IF self.valuetype = "Base64"
                                        THEN DecodeStateDefault ELSE @,
                           !.dest = Append(@, self.delimiter),
                           !.ismatch = TRUE]
         ELSE [self EXCEPT !.ismatch = TRUE]
    ELSE self

\* ldif2tsv.rs TsvTokenReceiver::new
TsvTokenReceiver_new(attributes) ==
    [attributes |-> attributes, entryvalues |-> [i \in 1..Len(attributes) |-> <<>>],
     attrmatch |-> None, valuebuf |-> <<>>, dest |-> <<>>, valuetype |-> "Text",
     b64state |-> DecodeStateDefault, panic |-> FALSE]

\* self.attributes.iter().position(..)
Position(attributes, attrlowercase) ==
    IF \E i \in 1..Len(attributes) : to_ascii_lowercase(attributes[i]) = attrlowercase
    THEN CHOOSE i \in 1..Len(attributes) :
             /\ to_ascii_lowercase(attributes[i]) = attrlowercase
             /\ \A j \in 1..(i - 1) : to_ascii_lowercase(attributes[j]) # attrlowercase
    ELSE None

\* ldif2tsv.rs 66-77: increment counters
RECURSIVE Incremented(_, _, _)
Incremented(counters, vec, i) ==
    IF i = 0 THEN counters
    ELSE IF counters[i] + 1 # Len(vec[i]) THEN [counters EXCEPT ![i] = @ + 1]
    ELSE Incremented([counters EXCEPT ![i] = IF i = 1 THEN @ + 1 ELSE 0], vec, i - 1)

\* ldif2tsv.rs 116-124: for record in cartesian_product(&self.entryvalues),
\* with the CartesianProduct of the binary (52-81); &self.vec[i][counter]
\* panics when a list after the first is empty
RECURSIVE ForRecords(_, _, _)
ForRecords(self, vec, counters) ==
    IF counters[1] = Len(vec[1]) THEN self
    ELSE IF \E i \in 1..Len(vec) : counters[i] >= Len(vec[i])
    THEN [self EXCEPT !.panic = TRUE]
    ELSE ForRecords([self EXCEPT !.dest = @ \o write_record(
                         "tsv", [i \in 1..Len(vec) |-> vec[i][counters[i] + 1]], 1)],
                    vec, Incremented(counters, vec, Len(vec)))

Cleared(self) ==
    IF self.panic THEN self
    ELSE [self EXCEPT !.entryvalues = [i \in 1..Len(self.attributes) |-> <<>>]]

\* ldif2tsv.rs TsvTokenReceiver::receive_token
TsvTokenReceiver_receive_token(self, token) ==
    IF self.panic THEN self
    ELSE IF token.kind = "AttributeType"
    THEN [self EXCEPT !.attrmatch = Position(self.attributes,
                                             to_ascii_lowercase(token.segment))]
    ELSE IF token.kind = "ValueText"
    THEN IF self.attrmatch # None
         THEN [self EXCEPT !.valuebuf = @ \o token.segment, !.valuetype = "Text"]
         ELSE self
    ELSE IF token.kind = "ValueBase64"
    THEN IF self.attrmatch # None
         THEN Unwrapped(self, DecodeWriter_write(
                  DecodeWriter_new_with_state(self.valuebuf, self.b64state), token.segment),
                  "valuebuf")
         ELSE self
    ELSE IF token.kind = "ValueFinish"
    THEN IF self.attrmatch # None
         THEN [self EXCEPT !.b64state = IF self.valuetype = "Base64"
                                        THEN DecodeStateDefault ELSE @,
                           !.entryvalues[self.attrmatch] = Append(@, self.valuebuf),
                           !.valuebuf = <<>>]
         ELSE self
    ELSE Cleared(ForRecords(self, self.entryvalues,
                            [i \in 1..Len(self.attributes) |-> 0]))

\* the tokens go to the receiver of the binary as the Lexer emits them
RECURSIVE receive_tokens(_, _, _)
receive_tokens(bin, tr, tokens) ==
    IF tokens = <<>> THEN tr
    ELSE receive_tokens(bin,
                        IF bin = "lget" THEN TokenReceiver_receive_token(tr, Head(tokens))
                        ELSE TsvTokenReceiver_receive_token(tr, Head(tokens)),
                        Tail(tokens))

\* the writes of the Unfolder arrive at the Lexer one by one
RECURSIVE LexerWrites(_, _)
LexerWrites(self, writes) ==
    IF writes = <<>> \/ self.err # NoError THEN self
    ELSE LexerWrites(Lexer_loc_write(self, Head(writes).loc, Head(writes).buf),
                     Tail(writes))

\* copy(&mut stdin(), &mut WriteLocWrapper::new(crstripper)): the input is
\* written to the CrStripper; nothing is flushed
Copied(bytes) ==
    InnerWrites(StageNew("Unfolder"),
                loc_write("CrStripper", StageNew("CrStripper"), LocNew, bytes).inner)

Lexed(unf) ==
    [lexer |-> LexerWrites(Lexer_new(EntryTokenWriter_new(TRUE, <<>>, FALSE)), unf.inner),
     failed |-> unf.err # ""]

\* main of lget and of ldif2tsv: what is on standard output at the end, and
\* how the process ends
Ended(tr, failed) ==
    [stdout |-> tr.dest,
     status |-> IF tr.panic THEN "panic" ELSE IF failed THEN "1" ELSE "0"]

Received(cl, lexed) ==
    Ended(receive_tokens(cl.bin,
                         IF cl.bin = "lget"
                         THEN TokenReceiver_new(cl.attributes[1], cl.delimiter)
                         ELSE TsvTokenReceiver_new(cl.attributes),
                         lexed.lexer.token_receiver.tokens),
          lexed.failed \/ lexed.lexer.err # NoError)

ldif_main(cl, bytes) == Received(cl, Lexed(Copied(bytes)))

\* lget cn, lget -0 cn, ldif2tsv dn cn, ldif2tsv cn
FrontLines ==
    { [bin |-> "lget", attributes |-> <<B(<<"c", "n">>)>>, delimiter |-> LF],
      [bin |-> "lget", attributes |-> <<B(<<"c", "n">>)>>, delimiter |-> 0],
      [bin |-> "ldif2tsv", attributes |-> <<B(<<"d", "n">>), B(<<"c", "n">>)>>,
       delimiter |-> LF],
      [bin |-> "ldif2tsv", attributes |-> <<B(<<"c", "n">>)>>, delimiter |-> LF] }

InitFront ==
    /\ StageIdle
    /\ CodecIdle
    /\ LexerIdle
    /\ CompareIdle
    /\ FilterIdle
    /\ ProductIdle
    /\ JsonIdle
    /\ SkipperIdle
    /\ EscapeIdle
    /\ tool \in FrontLines
    /\ fstdin \in Documents(MaxLines)
    /\ fstdout = <<>>
    /\ fstatus = "start"

front_main ==
    /\ fstatus = "start"
    /\ \E r \in {ldif_main(tool, fstdin)} :
          /\ fstdout' = r.stdout
          /\ fstatus' = r.status
    /\ UNCHANGED <<tool, fstdin>>
    /\ UNCHANGED <<stageVars, codecVars, lexerVars, compareVars, filterVars, productVars, jsonVars, skipperVars, escapeVars>>

NextFront == front_main

SpecFront == InitFront /\ [][NextFront]_vars

(***************************************************************************)
(* bin/lescape.rs                                                          *)
(***************************************************************************)
\* {c:02x}
hex_02x(c) ==
    LET Digit(d) == IF d < 10 THEN Ord("0") + d ELSE Ord("a") + d - 10
    IN  <<Digit(c \div 16), Digit(c % 16)>>

\* !c.is_ascii() || matches!(c, b'\\' | b'*' | b'(' | b')' | b':' | b'\0')
Escapes(c) ==
    c > 127 \/ c \in {BACKSLASH, Ord("*"), Ord("("), Ord(")"), Ord(":"), 0}

\* lescape: what it writes to dest for buf, from the index i on (from 0)
RECURSIVE lescape_from(_, _, _)
lescape_from(buf, i, from) ==
    IF i = Len(buf)
    THEN IF from # Len(buf) THEN SubSeq(buf, from + 1, Len(buf)) ELSE <<>>
    ELSE IF Escapes(buf[i + 1])
    THEN (IF i > from THEN SubSeq(buf, from + 1, i) ELSE <<>>)
         \o <<BACKSLASH>> \o hex_02x(buf[i + 1])
         \o lescape_from(buf, i + 1, i + 1)
    ELSE lescape_from(buf, i + 1, from)

lescape(buf) == lescape_from(buf, 0, 0)

hexdigit_to_lower_bits(digit) ==
    IF DIGIT(digit) THEN digit - Ord("0")
    ELSE to_ascii_lowercase(<<digit>>)[1] - Ord("a") + 10

is_ascii_hexdigit(c) ==
    DIGIT(c) \/ InRange(c, Ord("a"), Ord("f")) \/ InRange(c, Ord("A"), Ord("F"))

LUnescaper_new ==
    [state |-> "Normal", d1 |-> 0, dest |-> <<>>, failed |-> FALSE]

InvalidDigit(self) == [self EXCEPT !.failed = TRUE]

\* LUnescaper::write: the loop from the index i on, then the rest of buf
RECURSIVE LUnescaper_from(_, _, _, _)
LUnescaper_from(self, buf, i, from) ==
    IF i = Len(buf)
    THEN IF self.state = "Normal" /\ from < Len(buf)
         THEN [self EXCEPT !.dest = @ \o SubSeq(buf, from + 1, Len(buf))]
         ELSE self
    ELSE IF self.state = "Normal" /\ buf[i + 1] = BACKSLASH
    THEN LUnescaper_from([self EXCEPT !.dest = @ \o SubSeq(buf, from + 1, i),
                                      !.state = "Backslash"],
                         buf, i + 1, i)
    ELSE IF self.state = "Normal" THEN LUnescaper_from(self, buf, i + 1, from)
    ELSE IF ~is_ascii_hexdigit(buf[i + 1]) THEN InvalidDigit(self)
    ELSE IF self.state = "Backslash"
    THEN LUnescaper_from([self EXCEPT !.state = "FirstDigit", !.d1 = buf[i + 1]],
                         buf, i + 1, from)
    ELSE LUnescaper_from(
             [self EXCEPT !.dest = Append(@, BitOr(Shl(hexdigit_to_lower_bits(self.d1), 4),
                                                   hexdigit_to_lower_bits(buf[i + 1]))),
                          !.state = "Normal"],
             buf, i + 1, i + 1)

\* a variant that forgets the state of the previous write
LUnescaper_write_fresh(self, buf) ==
    LUnescaper_from([self EXCEPT !.state = "Normal"], buf, 0, 0)

LUnescaper_write(self, buf) == LUnescaper_from(self, buf, 0, 0)

\* bytes that are escaped, bytes that are not, among them hexadecimal digits
EscBytes == {LetterA, BACKSLASH, Ord(":"), 0, 255, Ord("5")}

InitEscape ==
    /\ StageIdle
    /\ CodecIdle
    /\ LexerIdle
    /\ CompareIdle
    /\ FilterIdle
    /\ ProductIdle
    /\ JsonIdle
    /\ SkipperIdle
    /\ FrontIdle
    /\ plaintext \in SeqsUpTo(EscBytes, MaxEscLen)
    /\ escfed = 0
    /\ escaped = <<>>
    /\ unfed = 0
    /\ unempties = 0
    /\ lunescaper = LUnescaper_new
    /\ epc = "escaping"

\* LEscaper::write with the next n bytes of the plain text
escape_write(n) ==
    /\ epc = "escaping"
    /\ escaped' = escaped \o lescape(SubSeq(plaintext, escfed + 1, escfed + n))
    /\ escfed' = escfed + n
    /\ UNCHANGED <<plaintext, unfed, unempties, lunescaper, epc>>
    /\ UNCHANGED <<stageVars, codecVars, lexerVars, compareVars, filterVars, productVars, jsonVars, skipperVars, frontVars>>

\* the end of the plain text: the escaped text goes to lescape -r
escape_end ==
    /\ epc = "escaping"
    /\ escfed = Len(plaintext)
    /\ epc' = "unescaping"
    /\ UNCHANGED <<plaintext, escfed, escaped, unfed, unempties, lunescaper>>
    /\ UNCHANGED <<stageVars, codecVars, lexerVars, compareVars, filterVars, productVars, jsonVars, skipperVars, frontVars>>

\* LUnescaper::write with the next n bytes of the escaped text
unescape_write(n) ==
    /\ epc = "unescaping"
    /\ n = 0 => unempties < MaxEmpty
    /\ lunescaper' = LUnescaper_write(lunescaper, SubSeq(escaped, unfed + 1, unfed + n))
    /\ IF lunescaper'.failed
       THEN epc' = "failed" /\ UNCHANGED <<unfed, unempties>>
       ELSE /\ epc' = "unescaping"
            /\ unfed' = unfed + n
            /\ unempties' = IF n = 0 THEN unempties + 1 ELSE unempties
    /\ UNCHANGED <<plaintext, escfed, escaped>>
    /\ UNCHANGED <<stageVars, codecVars, lexerVars, compareVars, filterVars, productVars, jsonVars, skipperVars, frontVars>>

NextEscape ==
    \/ \E n \in 1..(Len(plaintext) - escfed) : escape_write(n)
    \/ escape_end
    \/ \E n \in 0..(Len(escaped) - unfed) : unescape_write(n)

SpecEscape == InitEscape /\ [][NextEscape]_vars

(***************************************************************************)
(* Properties of lfilter                                                   *)
(***************************************************************************)
\* C28: lfilter exits with status 2 when an error occurred (the filter does
\* not parse, or reading standard input through the chain fails), else with
\* status 0 when an entry of the input matched the filter, else with status 1
LfilterExitCodes ==
    fpc = "exited" =>
        lfilter.exit =
            IF ~parsed.ok \/ lfilter.copy = "Err" THEN <<2>>
            ELSE IF matched = <<TRUE>> THEN <<0>>
            ELSE <<1>>

(***************************************************************************)
(* Properties of the chain CrStripper, Unfolder, sink                      *)
(***************************************************************************)
\* every byte the sink observed is the byte of the input at the offset its
\* Loc names, with the line and column of that offset in the input
AttributedToInput ==
    \A i \in 1..Len(Observed(sink)) :
        /\ Observed(sink)[i].loc.offset < Len(input)
        /\ Observed(sink)[i].byte = input[Observed(sink)[i].loc.offset + 1]
        /\ Observed(sink)[i].loc = LocAt(input, Observed(sink)[i].loc.offset)

\* C29: for every input and every chunking the chain does not fail, once
\* flushed the sink has received the input CR-stripped and then unfolded,
\* every byte the sink receives carries its location in the original input,
\* and for a CR LF SPACE b CR LF CR LF c the sink receives a b LF LF c with
\* b at line 2, column 2
ChainCorrect ==
    /\ pc # "failed"
    /\ pc = "flushed" => Bytes(sink) = Unfolded(Stripped(input))
    /\ AttributedToInput
    /\ (pc = "flushed" /\ input = S2Input) =>
           /\ Bytes(sink) = <<LetterA, LetterB, LF, LF, LetterC>>
           /\ Observed(sink)[2] =
                  [byte |-> LetterB, loc |-> [line |-> 2, column |-> 2, offset |-> 4]]

(***************************************************************************)
(* Properties of cartesian_product                                         *)
(***************************************************************************)
\* |Lj| * ... * |Ln| for the lists from the j-th on, 1 for none
RECURSIVE Sizes(_, _)
Sizes(v, j) == IF j > Len(v) THEN 1 ELSE Len(v[j]) * Sizes(v, j + 1)

\* the number of tuples: none for no list at all
Tuples(v) == IF v = <<>> THEN 0 ELSE Sizes(v, 1)

\* the k-th combination, k from 0, in lexicographic order of the indices
\* with the last list varying fastest: the digits of k in the mixed radix
\* of the sizes
Combination(v, k) ==
    [j \in 1..Len(v) |-> v[j][((k \div Sizes(v, j + 1)) % Len(v[j])) + 1]]

\* the records of the combinations from the k-th on
RECURSIVE Records(_, _, _)
Records(w, v, k) ==
    IF k >= Tuples(v) THEN <<>>
    ELSE write_record(w, Combination(v, k), 1) \o Records(w, v, k + 1)

\* what the writer writes before the records of an entry
Header(w, v) ==
    IF w = "csv" THEN write_record("csv", [i \in 1..Len(v) |-> Attribute(i)], 1)
    ELSE <<>>

Hex4(unit, digits) ==
    <<digits[(unit \div 4096) + 1], digits[((unit \div 256) % 16) + 1],
      digits[((unit \div 16) % 16) + 1], digits[(unit % 16) + 1]>>

\* the JSON string literal of str: quote and backslash after a backslash, CR,
\* LF and TAB as \r, \n and \t, every other control byte and every non-ASCII
\* char as one \uXXXX per UTF-16 code unit, every other char as it is
RECURSIVE JsonBody(_, _)
JsonBody(str, digits) ==
    IF str = <<>> THEN <<>>
    ELSE (IF Head(str) \in {BACKSLASH, QUOTE} THEN <<BACKSLASH, Head(str)>>
          ELSE IF Head(str) = CR THEN <<BACKSLASH, Ord("r")>>
          ELSE IF Head(str) = LF THEN <<BACKSLASH, Ord("n")>>
          ELSE IF Head(str) = TAB THEN <<BACKSLASH, Ord("t")>>
          ELSE IF Head(str) < 32 \/ Head(str) = DEL \/ Head(str) >= 128
          THEN IF Head(str) < 65536
               THEN <<BACKSLASH, Ord("u")>> \o Hex4(Head(str), digits)
               ELSE <<BACKSLASH, Ord("u")>>
                    \o Hex4(55296 + ((Head(str) - 65536) \div 1024), digits)
                    \o <<BACKSLASH, Ord("u")>>
                    \o Hex4(56320 + ((Head(str) - 65536) % 1024), digits)
          ELSE <<Head(str)>>)
         \o JsonBody(Tail(str), digits)

LowerHexDigits == B(<<"0", "1", "2", "3", "4", "5", "6", "7", "8", "9",
                      "a", "b", "c", "d", "e", "f">>)

\* C31: write_json_string writes the JSON string literal of its input, which
\* decodes back to the input: the escapes above with four hexadecimal digits
\* (in either case), every other char copied once, and no byte of an escaped
\* char copied besides its escape
JsonStringLiteral ==
    jpc = "returned" =>
        \/ jout = <<QUOTE>> \o JsonBody(jstr, LowerHexDigits) \o <<QUOTE>>
        \/ jout = <<QUOTE>> \o JsonBody(jstr, UpperHexDigits) \o <<QUOTE>>

(***************************************************************************)
(* Properties of the Skipper                                               *)
(***************************************************************************)
\* the bytes a run of calls owes the sink: walk the calls over the input with
\* the bytes written (out) and the bytes of the open skip (held)
RECURSIVE Owed(_, _, _, _, _)
Owed(cs, bs, k, i, acc) ==
    IF k > Len(cs) THEN acc
    ELSE IF cs[k] = "shift"
    THEN Owed(cs, bs, k + 1, i + 1,
              IF acc.skipping THEN [acc EXCEPT !.held = Append(acc.held, bs[i])]
              ELSE [acc EXCEPT !.out = Append(acc.out, bs[i])])
    ELSE IF cs[k] = "begin_skip"
    THEN Owed(cs, bs, k + 1, i, [acc EXCEPT !.skipping = TRUE])
    ELSE IF cs[k] = "end_skip"
    THEN Owed(cs, bs, k + 1, i, [acc EXCEPT !.skipping = FALSE, !.held = <<>>])
    ELSE Owed(cs, bs, k + 1, i,
              [out |-> acc.out \o acc.held, held |-> <<>>, skipping |-> FALSE])

OwedNow == Owed(calls, kinput, 1, 1, [out |-> <<>>, held |-> <<>>, skipping |-> FALSE])

\* C32: when a run of Skipper calls that all returned Ok has ended with
\* write_remainder, the sink holds the input bytes in order, each once, less
\* the bytes shifted between a begin_skip and its end_skip
SkipperConserves ==
    (kpc = "done" /\ driver = "Free") =>
        Bytes(skipper.inner) = OwedNow.out \o OwedNow.held


\* the bytes shifted since the begin_skip that is still open
Region(sk) ==
    IF sk.state.kind = "SkippingFrom" THEN sk.pos - sk.state.offset
    ELSE IF sk.state.kind = "SkippingWithPrefix" THEN Len(sk.state.prefix) + sk.pos
    ELSE 0

TooMuch == "skipped data exceeds maximum"

RegionBounded ==
    /\ Region(skipper) <= MAX_PREFIX
    /\ Len(skipper.state.prefix) <= MAX_PREFIX
    /\ skipper.err # "index out of bounds"
    /\ skipper.err = TooMuch =>
           /\ Region(skipper) = MAX_PREFIX
           /\ lookahead(skipper) # None
    /\ driver # "Free" => (Region(skipper) <= 2 /\ skipper.err # TooMuch)

FifthShiftRefused ==
    (/\ Skipper_shift
     /\ skipper.state.kind # "Writing"
     /\ Region(skipper) = MAX_PREFIX
     /\ lookahead(skipper) # None)
    => /\ skipper'.err = TooMuch
       /\ skipper' = [skipper EXCEPT !.err = TooMuch]

\* C33: the bytes of the open skip are never more than MAX_PREFIX; a shift
\* that would make them five fails with 'skipped data exceeds maximum' and
\* leaves the Skipper where it was; save_state stores at most MAX_PREFIX
\* bytes and does not index past its array; and under CrStripper and
\* Unfolder there are never more than two, so that error does not occur
BoundedPrefix == []RegionBounded /\ [][FifthShiftRefused]_vars

BoundedPrefixWitness ==
    /\ driver = "Free"
    /\ kpc = "failed"
    /\ skipper.err = TooMuch
    /\ skipper.state.kind = "SkippingWithPrefix"
    /\ Region(skipper) = MAX_PREFIX


(***************************************************************************)
(* Properties of SortedComparison                                          *)
(***************************************************************************)
\* for op in comparison: the Diffs until next returns None
RECURSIVE Yielded(_, _, _)
YieldedFrom(took, compare_items) ==
    <<took.diff>> \o Yielded(took.old_iter, took.new_iter, compare_items)

Yielded(old_iter, new_iter, compare_items) ==
    IF SortedComparison_next(old_iter, new_iter, compare_items) = <<>> THEN <<>>
    ELSE YieldedFrom(SortedComparison_next(old_iter, new_iter, compare_items)[1],
                     compare_items)

\* the order of the keys as the claim states it
KeyBefore(a, b) ==
    \/ Len(a) < Len(b)
    \/ /\ Len(a) = Len(b)
       /\ \E k \in 1..Len(a) : a[k] < b[k] /\ \A j \in 1..(k - 1) : a[j] = b[j]

Ascending(keys) ==
    \A i \in 1..Len(keys), j \in 1..Len(keys) : i < j => KeyBefore(keys[i], keys[j])

KeysOf(map) == [i \in 1..Len(map) |-> map[i].key]

\* the key a Diff is about
DiffKey(diff) == IF diff.old # <<>> THEN diff.old[1].key ELSE diff.new[1].key

\* how many of the Diffs are d
Times(diffs, d) == Cardinality({i \in 1..Len(diffs) : diffs[i] = d})

SortedMerge(old, new, diffs) ==
    /\ \A x \in Range(old) :
          IF \E y \in Range(new) : y.key = x.key
          THEN \A y \in Range(new) :
                   y.key = x.key => Times(diffs, Diff_Modify(x, y)) = 1
          ELSE Times(diffs, Diff_Delete(x)) = 1
    /\ \A y \in Range(new) :
          (\A x \in Range(old) : x.key # y.key) => Times(diffs, Diff_Add(y)) = 1
    /\ Len(diffs) = Cardinality(Range(KeysOf(old)) \cup Range(KeysOf(new)))
    /\ Len(diffs) <= Len(old) + Len(new)
    /\ Ascending([i \in 1..Len(diffs) |-> DiffKey(diffs[i])])

SomeKeys == SeqsUpTo({LetterA, LetterB}, 2)

\* the vectors of the test of lcompare.rs, each number as a one-byte string
TestOld == << <<1>>, <<3>>, <<5>> >>
TestNew == << <<2>>, <<3>>, <<4>> >>

\* C34: over two maps in strictly ascending key order the SortedComparison
\* yields one Delete for each item only old has, one Add for each item only
\* new has and one Modify for each pair of equal keys, nothing else, in
\* ascending key order, and ends; a shorter key comes before a longer one
\* and keys of one length are in lexicographic order
SortedMergeCorrect ==
    /\ \A a \in SomeKeys, b \in SomeKeys :
          /\ DnKey_cmp(a, b) = "Less" <=> KeyBefore(a, b)
          /\ DnKey_cmp(a, b) = "Equal" <=> a = b
    /\ Yielded(TestOld, TestNew, "Ord::cmp")
           = << Diff_Delete(<<1>>), Diff_Add(<<2>>), Diff_Modify(<<3>>, <<3>>),
                Diff_Add(<<4>>), Diff_Delete(<<5>>) >>
    /\ cpc \in {"comparing", "done"} =>
           /\ Ascending(KeysOf(old_entries))
           /\ Ascending(KeysOf(new_entries))
           /\ SortedMerge(old_entries, new_entries,
                          Yielded(old_entries, new_entries, "old_dn.cmp(new_dn)"))
           /\ SortedMerge(comparison.old_iter, comparison.new_iter,
                          Yielded(comparison.old_iter, comparison.new_iter,
                                  "old_dn.cmp(new_dn)"))

\* a run that has yielded a Delete, an Add and a Modify
SortedMergeWitness ==
    /\ cpc = "done"
    /\ Len(old_entries) = 2
    /\ Len(new_entries) = 2
    /\ Len(Yielded(old_entries, new_entries, "old_dn.cmp(new_dn)")) = 3
    /\ \E i, j, k \in 1..3 :
          /\ Yielded(old_entries, new_entries, "old_dn.cmp(new_dn)")[i].kind = "Delete"
          /\ Yielded(old_entries, new_entries, "old_dn.cmp(new_dn)")[j].kind = "Add"
          /\ Yielded(old_entries, new_entries, "old_dn.cmp(new_dn)")[k].kind = "Modify"


(***************************************************************************)
(* Properties of the output of lcompare                                    *)
(***************************************************************************)
\* the keys in ascending order, and in descending order
RECURSIVE AscKeys(_)
AscKeys(S) ==
    IF S = {} THEN <<>>
    ELSE LET least == CHOOSE s \in S : \A u \in S \ {s} : KeyBefore(s, u)
         IN  <<least>> \o AscKeys(S \ {least})

RECURSIVE DescKeys(_)
DescKeys(S) ==
    IF S = {} THEN <<>>
    ELSE LET greatest == CHOOSE s \in S : \A u \in S \ {s} : KeyBefore(u, s)
         IN  <<greatest>> \o DescKeys(S \ {greatest})

\* the add record or the modify record of the entry of new with the key d
AtOnce(d) ==
    IF d \in DnKeys(old_file)
    THEN ModifyChangeRecord_new(<<Held(old_file, d)>>, Held(new_file, d),
                                params.attrs, params.invert)
    ELSE write_add(Held(new_file, d), params.attrs, params.invert)

\* its deferred modify record
Later(d) ==
    ModifyChangeRecord_new(IF d \in DnKeys(old_file) THEN <<Held(old_file, d)>> ELSE <<>>,
                           Held(new_file, d), params.defer_attrs, FALSE)

RECURSIVE AllAtOnce(_)
AllAtOnce(keys) ==
    IF keys = <<>> THEN <<>> ELSE AtOnce(Head(keys)) \o AllAtOnce(Tail(keys))

RECURSIVE AllLater(_)
AllLater(keys) ==
    IF keys = <<>> THEN <<>> ELSE Later(Head(keys)) \o AllLater(Tail(keys))

DeletesOf(keys) ==
    [i \in 1..Len(keys) |->
        [changetype |-> "delete",
         dn |-> from_utf8_lossy(Entry_get(Held(old_file, keys[i]), DN)[1]),
         attrvals |-> <<>>, ops |-> <<>>]]

\* C35: the output is the add and the non-deferred modify records in
\* ascending order of the DN keys, then the deferred modify records, then,
\* with --force only, the delete records in descending order of the DN keys
OutputOrder ==
    cpc = "done" =>
        stdout = AllAtOnce(AscKeys(DnKeys(new_file)))
                 \o AllLater(AscKeys(DnKeys(new_file)))
                 \o (IF args.force
                     THEN DeletesOf(DescKeys(DnKeys(old_file) \ DnKeys(new_file)))
                     ELSE <<>>)

\* an add after a modify, then two deferred modify records
OutputOrderWitness ==
    /\ cpc = "done"
    /\ Len(stdout) = 4
    /\ stdout[1].changetype = "modify"
    /\ stdout[2].changetype = "add"
    /\ deferred_modifies = SubSeq(stdout, 3, 4)
    /\ KeyBefore(to_lowercase(stdout[1].dn), to_lowercase(stdout[2].dn))


\* the attribute is one of --defer
Deferred(attr) ==
    \E k \in 1..Len(params.defer_attrs) : params.defer_attrs[k] = to_lowercase(attr)

\* C36: no add record and no modify record written before the deferred ones
\* names an attribute of --defer
DeferredOnlyLater ==
    cpc = "done" =>
        \A i \in 1..(Len(stdout) - Len(deferred_modifies) - Len(deferred_deletes)) :
            /\ \A k \in 1..Len(stdout[i].attrvals) : ~Deferred(stdout[i].attrvals[k][1])
            /\ \A k \in 1..Len(stdout[i].ops) : ~Deferred(stdout[i].ops[k].attr)


(***************************************************************************)
(* Properties of lget and ldif2tsv                                         *)
(***************************************************************************)
\* C37: lget and ldif2tsv write for an input what they write for the same
\* input with the end of its last line and a blank line appended
FrontEndsFlush ==
    fstatus \notin {"", "start"} =>
        fstdout = ldif_main(tool, fstdin \o <<LF, LF>>).stdout


(***************************************************************************)
(* Properties of the errors of the stages                                  *)
(***************************************************************************)
\* the errors a Skipper returns of its own
SkipperErrors ==
    {"call to .end_skip() while not skipping", "call to .begin_skip() in state {:?}",
     "call to .shift() after reaching end of buffer", "skipped data exceeds maximum"}

\* C38: over a sink that accepts every write neither CrStripper::loc_write
\* nor Unfolder::loc_write returns an error of the Skipper
NoSkipperError == err \notin SkipperErrors /\ pc # "failed"


(***************************************************************************)
(* Properties of the token stream                                          *)
(***************************************************************************)
\* where a prefix of a word of (AttributeType Value* ValueFinish |
\* EntryFinish)* ends: "Out" of a group, "In" a group without value tokens
\* yet, in a group of "ValueText" or of "ValueBase64" tokens, or "No" such
\* prefix
RECURSIVE Parsed(_, _, _)
Parsed(tokens, k, at) ==
    IF k > Len(tokens) \/ at = "No" THEN at
    ELSE IF tokens[k].kind = "AttributeType"
    THEN Parsed(tokens, k + 1, IF at = "Out" THEN "In" ELSE "No")
    ELSE IF tokens[k].kind = "EntryFinish"
    THEN Parsed(tokens, k + 1, IF at = "Out" THEN "Out" ELSE "No")
    ELSE IF tokens[k].kind = "ValueFinish"
    THEN Parsed(tokens, k + 1, IF at = "Out" THEN "No" ELSE "Out")
    ELSE Parsed(tokens, k + 1, IF at \in {"In", tokens[k].kind} THEN tokens[k].kind
                               ELSE "No")

\* C39: the tokens the Lexer has emitted are at all times a prefix of a word
\* of (AttributeType Value* ValueFinish | EntryFinish)* in which the value
\* tokens of one attribute are all ValueText or all ValueBase64
TokenGrammar ==
    lpc # "" => Parsed(lexer.token_receiver.tokens, 1, "Out") # "No"

\* a value handed on in two tokens and finished by the flush
TokenGrammarWitness ==
    /\ lpc = "flushed"
    /\ \E k \in 1..Len(lexer.token_receiver.tokens) :
          /\ k + 4 = Len(lexer.token_receiver.tokens)
          /\ lexer.token_receiver.tokens[k].kind = "AttributeType"
          /\ lexer.token_receiver.tokens[k + 1].kind = "ValueText"
          /\ lexer.token_receiver.tokens[k + 2].kind = "ValueText"
          /\ lexer.token_receiver.tokens[k + 3].kind = "ValueFinish"
          /\ lexer.token_receiver.tokens[k + 4].kind = "EntryFinish"


(***************************************************************************)
(* Properties of lescape                                                   *)
(***************************************************************************)
\* C40: however the escaped text is cut into writes, the LUnescaper does not
\* fail, and once all of it is written the LUnescaper has written the plain
\* text
EscapeRoundTrip ==
    /\ epc # "failed"
    /\ (epc = "unescaping" /\ unfed = Len(escaped)) => lunescaper.dest = plaintext

\* an escape cut after the backslash and again after the first digit
EscapeRoundTripWitness ==
    /\ epc = "unescaping"
    /\ plaintext = <<LetterA, BACKSLASH, 255>>
    /\ unfed = 3
    /\ lunescaper.state = "FirstDigit"
    /\ lunescaper.dest = <<LetterA>>

====
